---- MODULE Spec2Model ----
(***************************************************************************)
(* A model of the cothread cooperative scheduler (cothread/cothread.py)    *)
(* and of the synchronisation objects built on it.                         *)
(*                                                                         *)
(* Exactly one coroutine runs at a time.  `current` names it: a task, or   *)
(* the scheduler coroutine.  A task runs user code (pc = "run") until it   *)
(* calls a suspending primitive, which records its position in pc and      *)
(* switches to the scheduler; the scheduler resumes it from its tick.      *)
(* Time is counted in milliseconds.                                        *)
(***************************************************************************)
EXTENDS Integers, Sequences, FiniteSets, TLC

\* ---- bounds of the model ----
NTasks == 3             \* coroutines: the main task and the spawned ones
MaxTime == 1            \* the clock stops advancing here
MaxWakeups == 3         \* _Wakeup objects alive at one time
MaxSignals == 3         \* calls of EventQueue.Signal in one behaviour
MaxLength == 2          \* max_length of the EventQueue under test
MaxDepth == 2           \* nesting of RLock.acquire by its owner
MaxCalls == 2           \* invocations of the Timer callback that are counted
NThreads == 2           \* OS threads beside the scheduler thread
MaxPosts == 2           \* calls of Callback(...) in one behaviour
NSubs == 2              \* _Subscription objects (camonitor calls) in one behaviour
MaxUpdates == 3         \* updates the library delivers in one behaviour
MaxAborts == 2          \* abort credits an event holds at one time

\* ---- program constants ----
WAKEUP_NORMAL == 0      \* _WAKEUP_NORMAL
WAKEUP_TIMEOUT == 1     \* _WAKEUP_TIMEOUT
WAKEUP_EXCEPTION == 2   \* the third reason, an exc_info tuple
NoTask == 0             \* None in _Wakeup.__task; also "no wakeup"
NoDeadline == -1        \* until = None
MinDelay == 1           \* the scheduler never sleeps for less than 1 ms

Main == 1
Tasks == 1 .. NTasks
Scheduler == NoTask     \* `current` when the scheduler coroutine runs
Delays == 0 .. MaxTime
NoQueue == "none"       \* queue = None in a _Wakeup
YieldQueue == "yield"   \* _Scheduler.__yield_queue
\* the Event `done` of the caget_one or caput_one that task t runs
DoneEvent(t) == "done" \o ToString(t)
DoneEvents == {DoneEvent(t) : t \in Tasks}
\* Event objects: a plain Event, RLock.__event, Timer.__control, the
\* _flush_io_event of catools, and the done Events of its requests
Events == {"ev", "lk", "tc", "fl"} \cup DoneEvents
SpawnEvent(t) == "Spawn" \o ToString(t)     \* the Spawn object of task t
SpawnEvents == {SpawnEvent(t) : t \in Tasks \ {Main}}
\* EventBase objects: the Events, an EventQueue, the Pulse of a catools
\* Channel (Channel.__connect_event), and the Spawn objects
EventBases == Events \cup {"eq", "ce"} \cup SpawnEvents
QueueNames == {YieldQueue} \cup EventBases
FDs == {"fd"}           \* descriptors the program polls
Threads == 1 .. NThreads    \* the OS threads beside the scheduler thread
Subs == 1 .. NSubs
POLLEXTRA == {"POLLERR", "POLLHUP", "POLLNVAL"}     \* event masks are sets of flags

VARIABLES
    now,            \* time.time()
    sched_pc,       \* where the scheduler coroutine continues
    tick_queue,     \* the local ready_queue of __tick still to dispatch
    poll_until,     \* when the poll the scheduler is blocked in returns
    current,        \* the running coroutine
    pc,             \* per task: position
    locals,         \* per task: locals of the suspended call
    ready_queue,    \* _Scheduler.__ready_queue
    timer_queue,    \* _Scheduler.__timer_queue
    wait_queues,    \* every _WakeupQueue, by name
    wk,             \* the _Wakeup objects still referenced, in order of creation
    poll_queue,     \* _Scheduler.__poll_queue: per descriptor, its pollers
    wait_abort,     \* EventBase.__wait_abort, per event object
    ev_value,       \* Event.__value, per Event
    eq_queue,       \* EventQueue.__queue
    eq_closed,      \* EventQueue.__closed
    eq_signalled,   \* values passed to EventQueue.Signal so far (observation)
    eq_accepted,    \* values whose Signal returned True (observation)
    eq_received,    \* values returned by EventQueue.Wait (observation)
    rl_owner,       \* RLock.__owner
    rl_count,       \* RLock.__count
    callback,       \* the _Callback object: its task and its fields
    cb_pc,          \* where the task of callback_events continues when it runs
    threads,        \* per OS thread: its position in _Callback.__call__
    cb_seen,        \* the actions posted and the actions run (observation)
    cbr,            \* per OS thread: its call of CallbackResult
    teq,            \* the ThreadedEventQueue, its consumers and what they got
    timer,          \* the Timer object: its task and its fields
    tm_seen,        \* what has happened to the Timer (observation)
    sp_result,      \* Spawn.__result, per spawned task
    sp_raise_on_wait,   \* Spawn.__raise_on_wait, per spawned task
    sp_returned,    \* per spawned task: how its function ended (observation)
    holds,          \* per task: acquire calls returned less release calls (observation)
    pending,        \* per task in Yield: the tasks ready at its call that have
                    \* not run since (observation)
    fired_twice,    \* some wakeup() returned True a second time (observation)
    garbage_wrong,  \* an assertion on a garbage count has failed, or a cancel
                    \* has left more garbage than live entries (observation)
    ca,             \* catools: the Channel, its _Subscription objects, the queue
                    \* of _Subscription.__Callback and the flusher
    refused,        \* the last step called wakeup() on a spent _Wakeup (observation)
    last            \* what the last step did (observation)

sched_vars == <<now, sched_pc, poll_until>>
heap_vars == <<tick_queue, current, pc, locals, ready_queue, timer_queue, wait_queues, wk,
               poll_queue, wait_abort, ev_value, eq_queue, eq_closed,
               eq_signalled, eq_accepted, eq_received, rl_owner, rl_count, holds,
               sp_result, sp_raise_on_wait, sp_returned, timer, tm_seen,
               callback, cb_pc, threads, cb_seen, cbr, teq,
               pending, fired_twice, garbage_wrong, ca>>
vars == <<sched_vars, heap_vars, refused, last>>

\* `last` records what a step did: the call that returned or raised (op), in
\* which task, with which value; whether the task got there from the call
\* itself or resumed by the scheduler (via); and a count the operation leaves
\* (aux), how many times it invoked the Timer callback (calls), and the events
\* the system poll reported to __wakeup_poll (events).
NoLast == [op |-> "", task |-> NoTask, val |-> 0, via |-> "call", aux |-> 0,
           calls |-> 0, events |-> {}]

\* ------------------------------------------------------------------------
\* The state the program's operations work on, threaded through them.
Cur ==
    [cur |-> current, tick |-> tick_queue, pc |-> pc, locals |-> locals, ready |-> ready_queue,
     tq |-> timer_queue, wq |-> wait_queues, wk |-> wk, pq |-> poll_queue,
     abort |-> wait_abort, value |-> ev_value, twice |-> fired_twice,
     wrong |-> garbage_wrong,
     queue |-> eq_queue, closed |-> eq_closed, signalled |-> eq_signalled,
     accepted |-> eq_accepted, received |-> eq_received,
     owner |-> rl_owner, count |-> rl_count, holds |-> holds,
     result |-> sp_result, raise_on_wait |-> sp_raise_on_wait,
     returned |-> sp_returned, timer |-> timer, seen |-> tm_seen, time |-> now,
     callback |-> callback, cb_pc |-> cb_pc, threads |-> threads,
     cb_seen |-> cb_seen, cbr |-> cbr, teq |-> teq, ca |-> ca,
     pending |-> pending, refused |-> FALSE, last |-> NoLast, full |-> FALSE]

\* positions in which a task is suspended inside wait_until
Blocked == {"Sleep", "Yield", "Event.Wait", "poll_list", "EventQueue.Wait",
            "RLock.acquire", "Spawn.Wait", "Timer.Wait", "ThreadedEventQueue.Wait",
            "Pulse.Wait", "FlushIo.Wait", "Channel.Wait", "WaitForAll",
            "ca_timeout"}

\* _Poller: events is the mask wanted per descriptor, ready_list what fired.
\* A poller is kept with the wakeup it holds (poller.wakeup).
NoPoller == [events |-> [f \in FDs |-> {}], ready_list |-> [f \in FDs |-> {}]]

FreeWk ==
    [task |-> NoTask, queue |-> NoQueue, timers |-> FALSE, owner |-> NoTask,
     until |-> NoDeadline, fired |-> 0, poller |-> NoPoller]

Range(s) == {s[i] : i \in 1 .. Len(s)}

\* the _Wakeup objects something still refers to: the queues, the suspended
\* tasks' frames, and the entries of the ready queue (observation)
Referenced(S) ==
    UNION {Range(S.wq[q].waiters) : q \in QueueNames}
      \cup {e.wakeup : e \in Range(S.tq.entries)}
      \cup UNION {Range(S.pq[f]) : f \in FDs}
      \cup {S.locals[t].w : t \in {u \in Tasks : S.pc[u] \in Blocked}}
      \cup {e.w : e \in Range(S.ready) \cup Range(S.tick)}

\* Unreferenced objects are reclaimed, as by Python's reference counting.
\* The objects that remain are indexed 1, 2, ... in their order of creation,
\* so the index of an object is no more than a name for its identity.
Collect(S) ==
    LET live == Referenced(S) \ {NoTask}
        rank == [w \in 0 .. MaxWakeups |->
                    IF w \in live THEN Cardinality({v \in live : v <= w})
                    ELSE NoTask]
        seqs == {e.seq : e \in Range(S.ready) \cup Range(S.tick)}
        rename(q) == [i \in 1 .. Len(q) |->
                        [q[i] EXCEPT !.w = rank[@],
                                     !.seq = Cardinality({x \in seqs : x <= @})]]
    IN  [S EXCEPT
            !.wk = [i \in 1 .. MaxWakeups |->
                        IF i <= Cardinality(live)
                        THEN S.wk[CHOOSE w \in live : rank[w] = i]
                        ELSE FreeWk],
            !.wq = [q \in QueueNames |->
                        [@[q] EXCEPT !.waiters =
                            [i \in 1 .. Len(@) |-> rank[@[i]]]]],
            !.tq.entries = [i \in 1 .. Len(@) |->
                                [@[i] EXCEPT !.wakeup = rank[@]]],
            !.pq = [f \in FDs |-> [i \in 1 .. Len(@[f]) |-> rank[@[f][i]]]],
            !.locals = [t \in Tasks |-> [@[t] EXCEPT !.w = rank[@]]],
            !.ready = rename(@),
            !.tick = rename(@)]

Commit(S0) ==
    \E S1 \in {S0} : \E S \in {Collect(S1)} :
        /\ ~S.full
        /\ tick_queue' = S.tick
        /\ current' = S.cur
        /\ pc' = S.pc
        /\ locals' = S.locals
        /\ ready_queue' = S.ready
        /\ timer_queue' = S.tq
        /\ wait_queues' = S.wq
        /\ wk' = S.wk
        /\ poll_queue' = S.pq
        /\ wait_abort' = S.abort
        /\ ev_value' = S.value
        /\ eq_queue' = S.queue
        /\ eq_closed' = S.closed
        /\ eq_signalled' = S.signalled
        /\ eq_accepted' = S.accepted
        /\ eq_received' = S.received
        /\ rl_owner' = S.owner
        /\ rl_count' = S.count
        /\ holds' = S.holds
        /\ sp_result' = S.result
        /\ sp_raise_on_wait' = S.raise_on_wait
        /\ sp_returned' = S.returned
        /\ timer' = S.timer
        /\ tm_seen' = S.seen
        /\ callback' = S.callback
        /\ cb_pc' = S.cb_pc
        /\ threads' = S.threads
        /\ cb_seen' = S.cb_seen
        /\ cbr' = S.cbr
        /\ teq' = S.teq
        /\ ca' = S.ca
        /\ pending' = S.pending
        /\ fired_twice' = S.twice
        /\ garbage_wrong' = S.wrong
        /\ refused' = S.refused
        /\ last' = S.last

\* a faulty variant: bisect.bisect_left, which puts x before its equals
RECURSIVE bisect_left(_, _, _, _)
bisect_left(a, x, lo, hi) ==
    IF lo < hi
    THEN LET mid == (lo + hi) \div 2
         IN  IF a[mid + 1] < x
             THEN bisect_left(a, x, mid + 1, hi)
             ELSE bisect_left(a, x, lo, mid)
    ELSE lo

\* ---- bisect.bisect_right(a, x, lo, hi), indices counted from 0 ----
RECURSIVE bisect_right(_, _, _, _)
bisect_right(a, x, lo, hi) ==
    IF lo < hi
    THEN LET mid == (lo + hi) \div 2
         IN  IF x < a[mid + 1]
             THEN bisect_right(a, x, lo, mid)
             ELSE bisect_right(a, x, mid + 1, hi)
    ELSE lo

\* list.insert(index, e)
Insert(s, index, e) ==
    SubSeq(s, 1, index) \o <<e>> \o SubSeq(s, index + 1, Len(s))

\* ---- _Wakeup.woken ----
Wakeup_woken(S, w) == S.wk[w].task = NoTask

\* Every entry of the ready queue carries the rank of the moment it was made
\* ready among the entries not yet dispatched (seq, observation).
NextSeq(S) ==
    LET seqs == {e.seq : e \in Range(S.ready) \cup Range(S.tick)} \cup {0}
    IN  1 + CHOOSE x \in seqs : \A y \in seqs : y <= x

ReadyEntry(S, task, reason, w) ==
    [task |-> task, reason |-> reason, w |-> w, seq |-> NextSeq(S)]

\* a faulty variant: the task is put at the head of the ready queue
Scheduler_wakeup_task_front(S, task, reason, w) ==
    IF reason # WAKEUP_EXCEPTION
    THEN [S EXCEPT !.ready = <<ReadyEntry(S, task, reason, w)>> \o @]
    ELSE S

\* ---- _Scheduler.__wakeup_task ----
Scheduler_wakeup_task(S, task, reason, w) ==
    IF reason # WAKEUP_EXCEPTION
    THEN [S EXCEPT !.ready = Append(@, ReadyEntry(S, task, reason, w))]
    ELSE S

\* the number of spent _Wakeup objects among wakeups
Spent(S, wakeups) ==
    Cardinality({i \in 1 .. Len(wakeups) : Wakeup_woken(S, wakeups[i])})

\* what `assert 0 <= self.__garbage <= len(self)` tests
GarbageInRange(garbage, queue) == 0 <= garbage /\ garbage <= Len(queue)

\* the garbage count after a cancel: the number of spent entries, and no more
\* than the live ones
GarbageAfterCancel(S, garbage, wakeups) ==
    /\ garbage = Spent(S, wakeups)
    /\ garbage <= Len(wakeups) - Spent(S, wakeups)

\* the state with a failed test noted (observation)
Tested(S, ok) == IF ok THEN S ELSE [S EXCEPT !.wrong = TRUE]

\* a faulty variant: the queue is never rebuilt
WakeupQueue_cancel_counts_only(S, q) ==
    LET S1 == [S EXCEPT !.wq[q].garbage = @ + 1]
    IN  Tested(S1, GarbageAfterCancel(S1, S1.wq[q].garbage, S1.wq[q].waiters))

\* ---- _WakeupQueue.cancel ----
WakeupQueue_cancel(S, q) ==
    LET garbage == S.wq[q].garbage + 1
        S1 == IF 2 * garbage > Len(S.wq[q].waiters)
              THEN [S EXCEPT !.wq[q] =
                      [waiters |-> SelectSeq(@.waiters,
                                             LAMBDA w : ~Wakeup_woken(S, w)),
                       garbage |-> 0]]
              ELSE [S EXCEPT !.wq[q].garbage = garbage]
    IN  Tested(S1, GarbageAfterCancel(S1, S1.wq[q].garbage, S1.wq[q].waiters))

\* ---- _TimerQueue.cancel ----
\* __timeouts and __wakeups are parallel lists; entries pairs them (zip).
TimerQueue_cancel(S) ==
    LET garbage == S.tq.garbage + 1
        S1 == IF 2 * garbage > Len(S.tq.entries)
              THEN [S EXCEPT !.tq =
                      [entries |-> SelectSeq(@.entries,
                                      LAMBDA e : ~Wakeup_woken(S, e.wakeup)),
                       garbage |-> 0]]
              ELSE [S EXCEPT !.tq.garbage = garbage]
    IN  Tested(S1, GarbageAfterCancel(S1, S1.tq.garbage,
                        [i \in 1 .. Len(S1.tq.entries) |-> S1.tq.entries[i].wakeup]))

\* `if self.__queue`: the queue is given and, by its __len__, not empty
Truthy(S, q) == q # NoQueue /\ S.wq[q].waiters # <<>>

\* a faulty variant: self.__task is not cleared, the object stays armed
Wakeup_wakeup_rearmed(S, w, reason) ==
    IF S.wk[w].task # NoTask
    THEN LET S1 == Scheduler_wakeup_task(S, S.wk[w].task, reason, w)
             S2 == [S1 EXCEPT !.wk[w].fired = @ + 1,
                              !.twice = @ \/ S.wk[w].fired > 0]
             S3 == IF reason # WAKEUP_NORMAL /\ Truthy(S2, S2.wk[w].queue)
                   THEN WakeupQueue_cancel(S2, S2.wk[w].queue)
                   ELSE S2
             S4 == IF reason # WAKEUP_TIMEOUT /\ S3.wk[w].timers
                                              /\ S3.tq.entries # <<>>
                   THEN TimerQueue_cancel(S3)
                   ELSE S3
         IN  [S |-> [S4 EXCEPT !.wk[w].queue = NoQueue], ret |-> TRUE]
    ELSE [S |-> [S EXCEPT !.refused = TRUE], ret |-> FALSE]

\* ---- _Wakeup.wakeup: the new state and the value returned ----
Wakeup_wakeup(S, w, reason) ==
    IF S.wk[w].task # NoTask
    THEN LET S1 == Scheduler_wakeup_task(S, S.wk[w].task, reason, w)
             S2 == [S1 EXCEPT !.wk[w].task = NoTask,
                              !.wk[w].fired = @ + 1,
                              !.twice = @ \/ S.wk[w].fired > 0]
             S3 == IF reason # WAKEUP_NORMAL /\ Truthy(S2, S2.wk[w].queue)
                   THEN WakeupQueue_cancel(S2, S2.wk[w].queue)
                   ELSE S2
             S4 == IF reason # WAKEUP_TIMEOUT /\ S3.wk[w].timers
                                              /\ S3.tq.entries # <<>>
                   THEN TimerQueue_cancel(S3)
                   ELSE S3
         IN  [S |-> [S4 EXCEPT !.wk[w].queue = NoQueue], ret |-> TRUE]
    ELSE [S |-> [S EXCEPT !.refused = TRUE], ret |-> FALSE]

\* ---- _TimerQueue.put ----
TimerQueue_put(S, w, timeout) ==
    LET timeouts == [i \in 1 .. Len(S.tq.entries) |-> S.tq.entries[i].timeout]
        index == bisect_right(timeouts, timeout, 0, Len(timeouts))
    IN  [S EXCEPT !.tq.entries =
            Insert(@, index, [timeout |-> timeout, wakeup |-> w])]

\* ---- _TimerQueue.wake_expired ----
RECURSIVE WakeExpiredLoop(_, _)
WakeExpiredLoop(S, expired) ==
    IF expired = <<>>
    THEN S
    ELSE WakeExpiredLoop(
            CHOOSE S1 \in {IF r.ret THEN r.S ELSE [r.S EXCEPT !.tq.garbage = @ - 1] :
                              r \in {Wakeup_wakeup(S, Head(expired).wakeup,
                                                   WAKEUP_TIMEOUT)}} : TRUE,
            Tail(expired))

TimerQueue_wake_expired(S, time) ==
    LET timeouts == [i \in 1 .. Len(S.tq.entries) |-> S.tq.entries[i].timeout]
        index == bisect_right(timeouts, time, 0, Len(timeouts))
        expired == SubSeq(S.tq.entries, 1, index)
        S1 == [S EXCEPT !.tq.entries = SubSeq(@, index + 1, Len(@))]
    IN  CHOOSE S3 \in {Tested(S2, GarbageInRange(S2.tq.garbage, S2.tq.entries)) :
                          S2 \in {WakeExpiredLoop(S1, expired)}} : TRUE

\* ---- _WakeupQueue.wake ----
RECURSIVE WakeAllLoop(_, _)
WakeAllLoop(S, waiters) ==
    IF waiters = <<>>
    THEN S
    ELSE WakeAllLoop(Wakeup_wakeup(S, Head(waiters), WAKEUP_NORMAL).S,
                     Tail(waiters))

\* the for loop of the wake-one branch: the state and the final n (from 0)
RECURSIVE WakeOneLoop(_, _, _)
WakeOneLoop(S, q, n) ==
    CHOOSE R \in
        {IF r.ret
         THEN [S |-> r.S, n |-> n]
         ELSE IF n + 1 < Len(S.wq[q].waiters)
              THEN WakeOneLoop([r.S EXCEPT !.wq[q].garbage = @ - 1], q, n + 1)
              ELSE [S |-> [r.S EXCEPT !.wq[q].garbage = @ - 1], n |-> n] :
            r \in {Wakeup_wakeup(S, S.wq[q].waiters[n + 1], WAKEUP_NORMAL)}} : TRUE

WakeupQueue_wake(S, q, wake_all) ==
    CHOOSE S3 \in
        {Tested(S2, GarbageInRange(S2.wq[q].garbage, S2.wq[q].waiters)) :
            S2 \in {IF S.wq[q].waiters # <<>>
                    THEN IF wake_all
                         THEN LET S1 == WakeAllLoop(S, S.wq[q].waiters)
                              IN  [S1 EXCEPT !.wq[q] = [waiters |-> <<>>,
                                                        garbage |-> 0]]
                         ELSE CHOOSE S1 \in
                                {[r.S EXCEPT !.wq[q].waiters =
                                        SubSeq(@, r.n + 2, Len(@))] :
                                    r \in {WakeOneLoop(S, q, 0)}} : TRUE
                    ELSE S}} : TRUE

\* ---- _Scheduler.__Wakeup and _Wakeup.__init__ ----
\* The new object takes a free index; with none left the model stops here.
HasFree(S) == \E w \in 1 .. MaxWakeups : S.wk[w].owner = NoTask

NewWakeup(S) ==
    IF HasFree(S)
    THEN CHOOSE w \in 1 .. MaxWakeups :
            /\ S.wk[w].owner = NoTask
            /\ \A v \in 1 .. (w - 1) : S.wk[v].owner # NoTask
    ELSE NoTask

Scheduler_Wakeup(S, task, queue, until) ==
    IF HasFree(S)
    THEN [S EXCEPT !.wk[NewWakeup(S)] =
                [task |-> task, queue |-> queue, timers |-> (until # NoDeadline),
                 owner |-> task, until |-> until, fired |-> 0,
                 poller |-> NoPoller]]
    ELSE [S EXCEPT !.full = TRUE]

\* the task's call blocks: it records where, and switches to the scheduler
Suspend(S, t, where, until, obj, w) ==
    [S EXCEPT !.pc[t] = where,
              !.locals[t] = [until |-> until, obj |-> obj, w |-> w, nready |-> 0],
              !.cur = Scheduler]

\* the task's call returns (or raises) and the task runs on
NoLocals == [until |-> NoDeadline, obj |-> NoQueue, w |-> NoTask, nready |-> 0]

Note(S, op, t, val) ==
    [S EXCEPT !.last.op = op, !.last.task = t, !.last.val = val]

Return(S, t, op, val) ==
    Note([S EXCEPT !.pc[t] = "run", !.locals[t] = NoLocals, !.cur = t],
         op, t, val)

\* ---- _Scheduler.wait_until up to the switch to the scheduler ----
\* wakeup = NoTask stands for wakeup = None: a new one is created.
Scheduler_wait_until(S, task, where, until, suspend_queue, wakeup) ==
    LET S1 == IF wakeup = NoTask
              THEN Scheduler_Wakeup(S, task, suspend_queue, until)
              ELSE S
        w  == IF wakeup = NoTask THEN NewWakeup(S) ELSE wakeup
        S2 == IF suspend_queue # NoQueue
              THEN [S1 EXCEPT !.wq[suspend_queue].waiters = Append(@, w)]
              ELSE S1
        S3 == IF until # NoDeadline THEN TimerQueue_put(S2, w, until) ELSE S2
    IN  IF S1.full THEN S1
        ELSE Suspend(S3, task, where, until, suspend_queue, w)

\* ---- EventBase._Wakeup: the new state and the value returned ----
EventBase_Wakeup(S, ev, wake_all) ==
    IF S.abort[ev] > 0 /\ ~wake_all
    THEN [S |-> [S EXCEPT !.abort[ev] = @ - 1], ret |-> FALSE]
    ELSE [S |-> WakeupQueue_wake([S EXCEPT !.abort[ev] = 0], ev, wake_all),
          ret |-> TRUE]

\* Spawn.__result: the empty tuple, (True, value), (False, exc_info), or the
\* attribute deleted.  The value 0 stands for None.
NoResult == [is |-> "empty", value |-> 0]
Returned(value) == [is |-> "ok", value |-> value]
Raised(exc) == [is |-> "exc", value |-> exc]
Deleted == [is |-> "deleted", value |-> 0]

\* No Timer has been created.  task is the coroutine Timer.__init__ spawns,
\* at where in Timer.__timer it stands when it runs: at the top of the loop,
\* or after a Wait that raised Timedout or returned.
NoTimer ==
    [task |-> NoTask, timeout |-> NoDeadline, retrigger |-> FALSE,
     reuse |-> FALSE, fire |-> FALSE, at |-> "top"]

\* What happened to the Timer (observation): cancel() has returned; the
\* callback invocations so far, counted up to MaxCalls; a timeout has been
\* set, at creation or by reset, that no invocation has answered yet (armed),
\* and the time it asks for (due); reset() has set a timeout; an expiry was
\* taken with __fire cleared.
NotSeen ==
    [cancelled |-> FALSE, calls |-> 0, armed |-> FALSE, due |-> 0,
     rearmed |-> FALSE, suppressed |-> FALSE]

\* No _Callback has been created.  task is the coroutine that runs
\* callback_events, values the deque, pipe the bytes written to self.signal
\* and not yet read from self.wait.
NoCallback == [task |-> NoTask, values |-> <<>>, pipe |-> 0, waiting |-> FALSE]

\* CallbackResult raised Timedout
TimedOut == [is |-> "timedout", value |-> 0]

\* No call of CallbackResult by the thread.  spawn and timeout are the
\* options callback_spawn and callback_timeout, event is the threading.Event,
\* action_result the list do_action fills; task is the coroutine do_action
\* runs in, f how far the action has got in it and f_outcome how it ended
\* (observation), out what CallbackResult returned or raised (observation).
NoCall ==
    [pc |-> "idle", spawn |-> FALSE, timeout |-> NoDeadline, event |-> FALSE,
     action_result |-> <<FALSE, 0>>, task |-> NoTask, f |-> "none",
     f_outcome |-> NoResult, out |-> NoResult]

\* A ThreadedEventQueue after __init__: values is the deque, pipe the bytes
\* written to __signal and not yet read from wait_descriptor, co where each
\* coroutine stands in a call of Signal or Wait; appended are the values in
\* the order of their append, got the values in the order of their popleft,
\* by the kind of consumer of each, error a popleft on the empty deque
\* (observation).
NoThreadedEventQueue ==
    [values |-> <<>>, pipe |-> 0, co |-> [t \in Tasks |-> "idle"],
     appended |-> <<>>, got |-> <<>>, by |-> <<>>, error |-> FALSE]

\* ---- catools ----
\* A value handed to a subscription's callback: an update the library
\* delivered (dbr_to_value's result), a ca_nothing(name, ECA_DISCONN), or the
\* exc_info of a failed dbr_to_value; n numbers the updates of one
\* subscription in the order the library delivered them (observation).
\* NoValue stands for None.
NoValue == [kind |-> "none", n |-> 0, update_count |-> 0]
Update(kind, n) == [kind |-> kind, n |-> n, update_count |-> 0]

\* A _Subscription before camonitor creates it.  state is __state; callback
\* tells that self.callback is not None; handle what has happened to the
\* native subscription (_as_parameter_); helper is the coroutine of
\* __create_subscription and connect_timeout its argument.  Observations:
\* received counts the updates delivered to the subscription, latest is the
\* last one handed to __maybe_signal and counted how many were since the last
\* callback, delivered the last one the user was told of, clears the calls of
\* ca_clear_subscription, failed that the user callback has raised, timedout
\* that the connect_timeout has expired, nothings how many callbacks were
\* given a ca_nothing (0, 1, many), overtaken that a ca_nothing merged and not
\* yet delivered was replaced by a later update.
NoSubscription ==
    [state |-> "none", all_updates |-> FALSE, notify_disconnect |-> FALSE,
     callback |-> FALSE, value |-> NoValue, update_count |-> 0,
     handle |-> "none", helper |-> NoTask, connect_timeout |-> NoDeadline,
     received |-> 0, latest |-> 0, counted |-> 0, delivered |-> 0,
     clears |-> 0, failed |-> FALSE, timedout |-> FALSE, nothings |-> 0,
     overtaken |-> FALSE, woke |-> "none", fails |-> "no"]

\* The context tuple of the caget_one or caput_one of a task: kind is "get"
\* or "put", done tells that it holds an Event (a put without wait holds
\* None), incs and decs count the Py_IncRef and Py_DecRef applied to it,
\* handed tells that the library holds the pointer and has not called the
\* handler yet, ended how the request has ended for its caller.
NoContext ==
    [kind |-> "none", done |-> FALSE, incs |-> 0, decs |-> 0,
     handed |-> FALSE, ended |-> "no"]

\* ca_nothing(name, errorcode): the sentinel, an exception too.  The other
\* exceptions have name 0: maybe_throw takes the name from its argument pv.
ca_nothing(name, errorcode) ==
    [kind |-> "ca_nothing", name |-> name, errorcode |-> errorcode,
     ok |-> errorcode = "ECA_NORMAL"]

\* a value read from PV name: an augmented value, with ok True
ca_value(name) ==
    [kind |-> "value", name |-> name, errorcode |-> "ECA_NORMAL", ok |-> TRUE]

\* the exceptions of cadef, and one that is none of the expected ones
CAException(status) ==
    [kind |-> "CAException", name |-> 0, errorcode |-> status, ok |-> FALSE]

Disconnected ==
    [kind |-> "Disconnected", name |-> 0, errorcode |-> "ECA_DISCONN", ok |-> FALSE]

TypeError ==
    [kind |-> "TypeError", name |-> 0, errorcode |-> "ECA_NORMAL", ok |-> FALSE]

\* caget_array / WaitForAll in progress: the caller, the throw argument, the
\* list of PVs, the Spawn objects in the order of the list, and the local
\* result of WaitForAll and its deadline; raw notes how each caget_one ended,
\* failed the place in the list of the event whose Wait raised (observation)
NoArray ==
    [caller |-> NoTask, throw |-> TRUE, pvs |-> <<>>, tasks |-> <<>>,
     result |-> <<>>, raw |-> <<>>, deadline |-> NoDeadline, failed |-> 0]

\* catools after import: channel is what has happened to the one Channel of
\* _channel_cache, connected its __connected and subscriptions its
\* __subscriptions; values is the deque of _Subscription.__Callback; flusher
\* is the coroutine of _FlushIo._dispatch_flush_io.  Observations: updates
\* counts the updates the library has delivered, logged tells that a
\* traceback was printed, requests counts the calls of _flush_io since the
\* last ca_flush_io.
NoCa ==
    [channel |-> "none", connected |-> FALSE, subscriptions |-> {},
     subs |-> [s \in Subs |-> NoSubscription], values |-> <<>>,
     flusher |-> NoTask, logged |-> FALSE, requests |-> 0,
     updates |-> 0, array |-> NoArray,
     context |-> [t \in Tasks |-> NoContext]]

\* ---- GetDeadline / AbsTimeout ----
GetDeadline(timeout, time) ==
    IF timeout = NoDeadline THEN NoDeadline ELSE timeout + time

\* ------------------------------------------------------------------------
\* The state after `import cothread`: the main task is running, the scheduler
\* coroutine waits at the top of its loop.
Init ==
    /\ now = 0
    /\ sched_pc = "tick"
    /\ tick_queue = <<>>
    /\ poll_until = NoDeadline
    /\ current = Main
    /\ pc = [t \in Tasks |-> IF t = Main THEN "run" ELSE "unborn"]
    /\ locals = [t \in Tasks |-> NoLocals]
    /\ ready_queue = <<>>
    /\ timer_queue = [entries |-> <<>>, garbage |-> 0]
    /\ wait_queues = [q \in QueueNames |-> [waiters |-> <<>>, garbage |-> 0]]
    /\ wk = [w \in 1 .. MaxWakeups |-> FreeWk]
    /\ poll_queue = [f \in FDs |-> <<>>]
    /\ wait_abort = [e \in EventBases |-> 0]
    /\ ev_value = [e \in Events |-> IF e = "lk" THEN <<TRUE, 0>> ELSE <<>>]
    /\ eq_queue = <<>>
    /\ eq_closed = FALSE
    /\ eq_signalled = 0
    /\ eq_accepted = <<>>
    /\ eq_received = <<>>
    /\ rl_owner = NoTask
    /\ rl_count = 0
    /\ holds = [t \in Tasks |-> 0]
    /\ sp_result = [t \in Tasks |-> NoResult]
    /\ sp_raise_on_wait = [t \in Tasks |-> FALSE]
    /\ sp_returned = [t \in Tasks |-> NoResult]
    /\ timer = NoTimer
    /\ tm_seen = NotSeen
    /\ callback = NoCallback
    /\ cb_pc = "waiting"
    /\ threads = [th \in Threads |-> "idle"]
    /\ cb_seen = [posted |-> <<>>, ran |-> <<>>]
    /\ cbr = [th \in Threads |-> NoCall]
    /\ teq = NoThreadedEventQueue
    /\ ca = NoCa
    /\ pending = [t \in Tasks |-> {}]
    /\ fired_twice = FALSE
    /\ garbage_wrong = FALSE
    /\ refused = FALSE
    /\ last = NoLast

Running(t) == current = t /\ pc[t] = "run"

\* a step of a running task: it changes the heap and nothing of the scheduler
TaskStep(S) ==
    /\ Commit(S)
    /\ UNCHANGED <<now, sched_pc, poll_until>>

\* ---- time.time() advances: while a task runs, or across the poll (the
\* scheduler's own steps between two polls take no time) ----
Tock ==
    /\ now < MaxTime
    /\ current # Scheduler \/ sched_pc = "poll"
    /\ now' = now + 1
    /\ refused' = FALSE
    /\ last' = NoLast
    /\ UNCHANGED <<sched_pc, poll_until, heap_vars>>

\* ---- Spawn.__init__ / _Scheduler.spawn ----
\* The new coroutine is the first one not yet created.
Scheduler_spawn(S, u) ==
    [S EXCEPT !.pc[u] = "new",
              !.ready = Append(@, ReadyEntry(S, u, WAKEUP_NORMAL, NoTask))]

Spawn_init(S, u, raise_on_wait) ==
    Scheduler_spawn([S EXCEPT !.result[u] = NoResult,
                              !.raise_on_wait[u] = raise_on_wait], u)

Spawn(t, u, raise_on_wait) ==
    /\ Running(t)
    /\ pc[u] = "unborn"
    /\ \A v \in 1 .. (u - 1) : pc[v] # "unborn"
    /\ TaskStep(Spawn_init(Cur, u, raise_on_wait))

\* a faulty variant: the exception is kept for Wait whatever raise_on_wait is
Spawn_result_always_kept(raise_on_wait, outcome) == outcome

\* ---- Spawn.__run: the result stored for the way the function ended ----
Spawn_result(raise_on_wait, outcome) ==
    IF outcome.is = "ok"
    THEN outcome
    ELSE IF raise_on_wait THEN outcome ELSE Returned(0)

\* a faulty variant: the completion wakes every waiter
Spawn_run_wakes_all(S, t, outcome) ==
    CHOOSE S2 \in
        {[IF r.ret THEN r.S ELSE [r.S EXCEPT !.result[t] = Deleted]
            EXCEPT !.pc[t] = "done", !.cur = Scheduler] :
            r \in {EventBase_Wakeup(
                      [S EXCEPT !.result[t] = Spawn_result(S.raise_on_wait[t], outcome),
                                !.returned[t] = outcome],
                      SpawnEvent(t), TRUE)}} : TRUE

\* ---- Spawn.__run from the end of the function: the result is stored, one
\* waiter is woken, the coroutine ends and control goes to its parent ----
Spawn_run(S, t, outcome) ==
    CHOOSE S2 \in
        {[IF r.ret THEN r.S ELSE [r.S EXCEPT !.result[t] = Deleted]
            EXCEPT !.pc[t] = "done", !.cur = Scheduler] :
            r \in {EventBase_Wakeup(
                      [S EXCEPT !.result[t] = Spawn_result(S.raise_on_wait[t], outcome),
                                !.returned[t] = outcome],
                      SpawnEvent(t), FALSE)}} : TRUE

TaskReturn(t, outcome) ==
    /\ Running(t)
    /\ t # Main
    /\ TaskStep(Spawn_run(Cur, t, outcome))

\* the task whose Spawn object is obj
SpawnTask(obj) == CHOOSE u \in Tasks \ {Main} : SpawnEvent(u) = obj

\* ---- Spawn.Wait after `if not self.__result: self._WaitUntil(timeout)` ----
\* A deleted result raises AttributeError; an exception kept is raised, and
\* the result deleted.
Spawn_Wait_result(S, t, u) ==
    CASE S.result[u].is = "ok" ->
            [Return(S, t, "Spawn.Wait", S.result[u].value) EXCEPT !.last.aux = u]
      [] S.result[u].is = "exc" ->
            [Return([S EXCEPT !.result[u] = Deleted], t, "Spawn.Wait raise",
                    S.result[u].value) EXCEPT !.last.aux = u]
      [] S.result[u].is = "empty" ->
            [Return(S, t, "ValueError", 0) EXCEPT !.last.aux = u]
      [] S.result[u].is = "deleted" ->
            [Return(S, t, "AttributeError", 0) EXCEPT !.last.aux = u]

\* ---- Spawn.Wait up to the suspension ----
Spawn_Wait_do(S, t, u, deadline) ==
    CASE S.result[u].is = "deleted" ->
            [Return(S, t, "AttributeError", 0) EXCEPT !.last.aux = u]
      [] S.result[u].is = "empty" ->
            Scheduler_wait_until(S, t, "Spawn.Wait", deadline, SpawnEvent(u), NoTask)
      [] OTHER -> Spawn_Wait_result(S, t, u)

Spawn_Wait(t, u, timeout) ==
    /\ Running(t)
    /\ u # Main
    /\ u # t
    /\ pc[u] # "unborn"
    /\ TaskStep(Spawn_Wait_do(Cur, t, u, GetDeadline(timeout, now)))

\* ---- EventBase._WaitUntil returns into Spawn.Wait, or raises Timedout ----
Spawn_Wait_resume(S, t, reason) ==
    IF reason = WAKEUP_TIMEOUT
    THEN [Return(S, t, "Timedout", 0) EXCEPT !.last.aux = SpawnTask(S.locals[t].obj)]
    ELSE Spawn_Wait_result(S, t, SpawnTask(S.locals[t].obj))

\* ---- Sleep(timeout) / SleepUntil ----
Sleep(t, timeout) ==
    /\ Running(t)
    /\ TaskStep(Scheduler_wait_until(Cur, t, "Sleep",
                    GetDeadline(timeout, now), NoQueue, NoTask))

\* ---- Yield(timeout) / _Scheduler.do_yield ----
\* The tasks ready at the call are noted for the caller (observation).
Scheduler_do_yield(S, t, until) ==
    LET ahead == {e.task : e \in Range(S.ready) \cup Range(S.tick)}
        S1 == Scheduler_wait_until(S, t, "Yield", until, YieldQueue, NoTask)
    IN  [S1 EXCEPT !.pending[t] = ahead,
                   !.locals[t].nready = Cardinality(ahead)]

Yield(t, timeout) ==
    /\ Running(t)
    /\ TaskStep(Scheduler_do_yield(Cur, t, GetDeadline(timeout, now)))

\* a faulty variant: the value is left set
Event_Reset_noop(S, e) == S

\* ---- Event.Reset ----
Event_Reset(S, e) == [S EXCEPT !.value[e] = <<>>]

\* ---- Event.Wait: the loop `while not self.__value: self._WaitUntil(deadline)`
\* and the code after it.  Entered at the call (deadline from AbsTimeout) and
\* again each time _WaitUntil returns without a timeout.
\* `where` is the position recorded while suspended: Event.Wait itself, or
\* RLock.acquire calling it.
Event_Wait_loop(S, t, e, deadline, where) ==
    IF S.value[e] = <<>>
    THEN Scheduler_wait_until(S, t, where, deadline, e, NoTask)
    ELSE Return(Event_Reset(S, e), t, where, S.value[e][2])

Event_Wait(t, e, timeout) ==
    /\ Running(t)
    /\ TaskStep(Event_Wait_loop(Cur, t, e, GetDeadline(timeout, now), "Event.Wait"))

\* a faulty variant: the reason of the wakeup is ignored
Event_Wait_resume_any_reason(S, t, reason, where) ==
    Event_Wait_loop(S, t, S.locals[t].obj, S.locals[t].until, where)

\* ---- EventBase._WaitUntil returns into that loop, or raises Timedout ----
Event_Wait_resume(S, t, reason, where) ==
    IF reason = WAKEUP_TIMEOUT
    THEN Return(S, t, "Timedout", 0)
    ELSE Event_Wait_loop(S, t, S.locals[t].obj, S.locals[t].until, where)

\* ---- Event.Signal (auto_reset = True) ----
Event_Signal_do(S, e, v) ==
    CHOOSE S1 \in
        {IF r.ret THEN r.S ELSE Event_Reset(r.S, e) :
            r \in {EventBase_Wakeup([S EXCEPT !.value[e] = <<TRUE, v>>], e, FALSE)}} :
        TRUE

Event_Signal(t, e, v) ==
    /\ Running(t)
    /\ TaskStep(Note(Event_Signal_do(Cur, e, v), "Event.Signal", t, v))

\* ---- Timer.__init__ ----
Timer_init(S, u, timeout, retrigger, reuse) ==
    Spawn_init([S EXCEPT
                    !.timer = [task |-> u, timeout |-> timeout,
                               retrigger |-> retrigger,
                               reuse |-> (reuse \/ retrigger), fire |-> TRUE,
                               at |-> "top"],
                    !.value["tc"] = <<>>,
                    !.seen = [NotSeen EXCEPT
                                !.armed = (timeout # NoDeadline),
                                !.due = GetDeadline(timeout, S.time)]],
               u, FALSE)

Timer(t, u, timeout, retrigger, reuse) ==
    /\ Running(t)
    /\ timer.task = NoTask
    /\ pc[u] = "unborn"
    /\ \A v \in 1 .. (u - 1) : pc[v] # "unborn"
    /\ TaskStep(Timer_init(Cur, u, timeout, retrigger, reuse))

\* self.__callback(): the invocation is counted (observation)
Timer_callback(S) ==
    [S EXCEPT !.last.calls = @ + 1,
              !.seen.calls = IF @ < MaxCalls THEN @ + 1 ELSE @,
              !.seen.armed = S.timer.retrigger]

\* ---- Timer.__timer: the body of its loop after self.__control.Wait has
\* ended, by Timedout or by returning ----
Timer_body(S) ==
    IF S.timer.at = "timedout"
    THEN IF S.timer.fire
         THEN Timer_callback([S EXCEPT !.timer.timeout =
                                IF ~S.timer.retrigger THEN NoDeadline ELSE @])
         ELSE [S EXCEPT !.seen.suppressed = TRUE]
    ELSE [S EXCEPT !.timer.fire = TRUE]

\* ---- Timer.__timer: self.__control.Wait(self.__timeout) at the top of
\* `while running`, up to the suspension or, the event being set, to the
\* return of Wait ----
Timer_Wait(S, t) ==
    LET W == Event_Wait_loop(S, t, "tc", GetDeadline(S.timer.timeout, S.time),
                             "Timer.Wait")
    IN  IF W.pc[t] = "run" THEN [W EXCEPT !.timer.at = "woken"] ELSE W

\* ---- Timer.__timer: the end of the loop body; `while running` goes on or
\* the coroutine ends ----
Timer_while(B, t) ==
    IF B.timer.reuse
    THEN [B EXCEPT !.timer.at = "top"]
    ELSE Spawn_run(B, t, Returned(0))

\* ---- Timer.__timer: the next step of its coroutine while it runs ----
Timer_timer(t) ==
    /\ t = timer.task
    /\ Running(t)
    /\ IF timer.at = "top"
       THEN TaskStep(Timer_Wait(Cur, t))
       ELSE TaskStep(Timer_while(Timer_body(Cur), t))

\* ---- EventBase._WaitUntil returns into self.__control.Wait: Wait returns,
\* raises Timedout, or waits again ----
Timer_resume(S, t, reason) ==
    LET W == Event_Wait_resume(S, t, reason, "Timer.Wait")
    IN  IF W.pc[t] = "run"
        THEN [W EXCEPT !.timer.at =
                 IF W.last.op = "Timedout" THEN "timedout" ELSE "woken"]
        ELSE W

\* a faulty variant: __fire is left as it is
Timer_cancel_do_keeps_fire(S) ==
    Event_Signal_do([S EXCEPT !.timer.reuse = FALSE], "tc", 0)

\* ---- Timer.cancel ----
Timer_cancel_do(S) ==
    Event_Signal_do([S EXCEPT !.timer.reuse = FALSE, !.timer.fire = FALSE],
                    "tc", 0)

Timer_cancel(t) ==
    /\ Running(t)
    /\ timer.task # NoTask
    /\ TaskStep(Note([Timer_cancel_do(Cur) EXCEPT !.seen.cancelled = TRUE],
                     "Timer.cancel", t, 0))

\* a faulty variant: __fire is left as it is
Timer_reset_do_keeps_fire(S, timeout) ==
    IF ~S.timer.reuse
    THEN S
    ELSE Event_Signal_do([S EXCEPT !.timer.timeout = timeout], "tc", 0)

\* ---- Timer.reset(timeout), retrigger left at its default; on a timer that
\* cannot be reused the assert raises and nothing changes ----
Timer_reset_do(S, timeout) ==
    IF ~S.timer.reuse
    THEN S
    ELSE Event_Signal_do([S EXCEPT !.timer.timeout = timeout,
                                   !.timer.fire = FALSE], "tc", 0)

Timer_reset(t, timeout) ==
    /\ Running(t)
    /\ timer.task # NoTask
    /\ \E S \in {Timer_reset_do(Cur, timeout)} :
           TaskStep(IF ~timer.reuse
                    THEN Note(S, "AssertionError", t, 0)
                    ELSE Note([S EXCEPT
                                !.seen.armed = (timeout # NoDeadline),
                                !.seen.due = GetDeadline(timeout, now),
                                !.seen.rearmed = @ \/ timeout # NoDeadline],
                              "Timer.reset", t, 0))

\* ---- coselect.poll_list / _Poller.__init__ / _Scheduler.poll_until ----
\* event_list is one descriptor with its mask.
Scheduler_poll_until(S, t, file, events, until) ==
    LET S1 == Scheduler_Wakeup(S, t, NoQueue, until)
        w  == NewWakeup(S)
        S2 == [S1 EXCEPT !.wk[w].poller.events[file] = events,
                         !.pq[file] = Append(@, w)]
    IN  IF S1.full THEN S1
        ELSE Scheduler_wait_until(S2, t, "poll_list", until, NoQueue, w)

poll_list(t, file, events, timeout) ==
    /\ Running(t)
    /\ TaskStep(Scheduler_poll_until(Cur, t, file, events,
                                     GetDeadline(timeout, now)))

\* a faulty variant: the value is put at the head of the deque
ThreadedEventQueue_append_left(q, value) ==
    [q EXCEPT !.values = <<value>> \o @, !.appended = Append(@, value)]

\* ---- ThreadedEventQueue.Signal: self.__values.append(value) ----
ThreadedEventQueue_append(q, value) ==
    [q EXCEPT !.values = Append(@, value), !.appended = Append(@, value)]

\* ---- ThreadedEventQueue.Wait: self.__values.popleft(); on the empty deque
\* it raises IndexError ----
ThreadedEventQueue_popleft(q, by) ==
    IF q.values = <<>>
    THEN [q EXCEPT !.error = TRUE]
    ELSE [q EXCEPT !.values = Tail(@),
                   !.got = Append(@, Head(q.values)),
                   !.by = Append(@, by)]

\* ---- ThreadedEventQueue.Signal in OS thread th: the append ----
ThreadedEventQueue_Signal_append(th) ==
    /\ threads[th] = "idle"
    /\ Len(teq.appended) < MaxSignals
    /\ TaskStep([Cur EXCEPT
                    !.teq = ThreadedEventQueue_append(@, Len(teq.appended) + 1),
                    !.threads[th] = "Signal write"])

\* os.write(self.__signal, b'-')
ThreadedEventQueue_Signal_write(th) ==
    /\ threads[th] = "Signal write"
    /\ TaskStep([Cur EXCEPT !.teq.pipe = @ + 1, !.threads[th] = "idle"])

\* ---- ThreadedEventQueue.Wait in OS thread th: coselect.poll_block returns
\* the descriptor as readable, or nothing when the timeout is over ----
ThreadedEventQueue_Wait_poll_block(th, timeout) ==
    /\ threads[th] = "idle"
    /\ teq.pipe > 0 \/ timeout # NoDeadline
    /\ IF teq.pipe > 0
       THEN TaskStep([Cur EXCEPT !.threads[th] = "Wait read"])
       ELSE TaskStep([Cur EXCEPT !.last.op = "Timedout", !.last.aux = th])

\* os.read(self.wait_descriptor, 1), which blocks while the pipe is empty
ThreadedEventQueue_Wait_read(th) ==
    /\ threads[th] = "Wait read"
    /\ teq.pipe > 0
    /\ TaskStep([Cur EXCEPT !.teq.pipe = @ - 1, !.threads[th] = "Wait popleft"])

\* return self.__values.popleft()
ThreadedEventQueue_Wait_popleft(th) ==
    /\ threads[th] = "Wait popleft"
    /\ TaskStep([Cur EXCEPT !.teq = ThreadedEventQueue_popleft(@, "thread"),
                            !.threads[th] = "idle"])

\* ---- ThreadedEventQueue.Signal in coroutine t: the append, and the write ----
ThreadedEventQueue_Signal(t) ==
    /\ Running(t)
    /\ \/ /\ teq.co[t] = "idle"
          /\ Len(teq.appended) < MaxSignals
          /\ TaskStep([Cur EXCEPT
                          !.teq = ThreadedEventQueue_append(
                                      [@ EXCEPT !.co[t] = "Signal write"],
                                      Len(teq.appended) + 1)])
       \/ /\ teq.co[t] = "Signal write"
          /\ TaskStep([Cur EXCEPT !.teq.pipe = @ + 1, !.teq.co[t] = "idle"])

\* ---- ThreadedEventQueue.Wait in coroutine t: coselect.poll_list on
\* wait_descriptor ----
ThreadedEventQueue_Wait(t, timeout) ==
    /\ Running(t)
    /\ teq.co[t] = "idle"
    /\ TaskStep([Scheduler_poll_until(Cur, t, "fd", {"POLLIN"},
                                      GetDeadline(timeout, now))
                    EXCEPT !.pc[t] = IF @ = "poll_list"
                                     THEN "ThreadedEventQueue.Wait" ELSE @])

\* poll_list returns: Timedout is raised if nothing is ready
ThreadedEventQueue_Wait_resume(S, t) ==
    IF S.wk[S.locals[t].w].poller.ready_list["fd"] = {}
    THEN Return(S, t, "Timedout", 0)
    ELSE Return([S EXCEPT !.teq.co[t] = "Wait read"], t, "poll_list", 1)

\* os.read(self.wait_descriptor, 1), which blocks the scheduler thread while
\* the pipe is empty; and return self.__values.popleft()
ThreadedEventQueue_Wait_read_popleft(t) ==
    /\ Running(t)
    /\ \/ /\ teq.co[t] = "Wait read"
          /\ teq.pipe > 0
          /\ TaskStep([Cur EXCEPT !.teq.pipe = @ - 1,
                                  !.teq.co[t] = "Wait popleft"])
       \/ /\ teq.co[t] = "Wait popleft"
          /\ TaskStep(Note([Cur EXCEPT
                                !.teq = ThreadedEventQueue_popleft(
                                            [@ EXCEPT !.co[t] = "idle"], "cothread")],
                           "ThreadedEventQueue.Wait", t,
                           IF teq.values = <<>> THEN 0 ELSE Head(teq.values)))

\* a faulty variant: pop() takes the newest value instead of pop(0)
EventQueue_Wait_loop_pop_last(S, t, deadline) ==
    IF S.queue = <<>> /\ ~S.closed
    THEN Scheduler_wait_until(S, t, "EventQueue.Wait", deadline, "eq", NoTask)
    ELSE IF S.queue # <<>>
         THEN Return([S EXCEPT !.queue = SubSeq(@, 1, Len(@) - 1),
                               !.received = Append(@, S.queue[Len(S.queue)])],
                     t, "EventQueue.Wait", S.queue[Len(S.queue)])
         ELSE Return(S, t, "StopIteration", 0)

\* ---- _Callback.__init__: the task of callback_events is spawned ----
Callback_init(t, u) ==
    /\ Running(t)
    /\ callback.task = NoTask
    /\ pc[u] = "unborn"
    /\ \A v \in 1 .. (u - 1) : pc[v] # "unborn"
    /\ TaskStep(Spawn_init([Cur EXCEPT !.callback.task = u,
                                       !.cb_pc = "waiting"], u, FALSE))

\* the task of callback_events runs and stands at position p
Dispatcher(p) ==
    /\ callback.task # NoTask
    /\ Running(callback.task)
    /\ cb_pc = p

\* a faulty variant: self.waiting is not set
Callback_set_waiting_skipped(cb) == cb

\* ---- _Callback.callback_events: self.waiting = True ----
Callback_set_waiting(cb) == [cb EXCEPT !.waiting = TRUE]

Callback_waiting ==
    /\ Dispatcher("waiting")
    /\ TaskStep([Cur EXCEPT !.callback = Callback_set_waiting(@),
                            !.cb_pc = "values"])

\* ---- _Callback.callback_events: `if not self.values:` and the call of
\* coselect.poll_list on self.wait, without timeout ----
Callback_values ==
    /\ Dispatcher("values")
    /\ IF callback.values = <<>>
       THEN TaskStep(Scheduler_poll_until([Cur EXCEPT !.cb_pc = "read"],
                        callback.task, "fd", {"POLLIN"}, NoDeadline))
       ELSE TaskStep([Cur EXCEPT !.cb_pc = "drain"])

\* ---- _Callback.callback_events: os.read(self.wait, 4096) ----
Callback_read ==
    /\ Dispatcher("read")
    /\ TaskStep([Cur EXCEPT !.callback.pipe = 0, !.cb_pc = "drain"])

\* ---- CallbackResult: what the calling thread posts.  The entry of the
\* deque that stands for do_action of thread th's call, or for
\* (Spawn, do_action) when the call has callback_spawn ----
do_action(th) == MaxPosts + th

\* the first coroutine not yet created
NextTask(S) ==
    CHOOSE u \in Tasks : S.pc[u] = "unborn" /\ \A v \in 1 .. (u - 1) : S.pc[v] # "unborn"

\* ---- do_action: action_result[0] = True and the call of the action, in
\* coroutine t ----
do_action_begin(S, th, t) ==
    [S EXCEPT !.cbr[th].action_result = <<TRUE, 0>>,
              !.cbr[th].task = t,
              !.cbr[th].f = "running"]

\* ---- do_action: the action has returned or raised; the outcome is stored
\* and event.set() called ----
do_action_end(S, th, outcome) ==
    [S EXCEPT !.cbr[th].action_result = <<outcome.is = "ok", outcome.value>>,
              !.cbr[th].f = "finished",
              !.cbr[th].f_outcome = outcome,
              !.cbr[th].event = TRUE]

\* ---- callback_events calls the entry it has popped: an action posted by
\* Callback, do_action, or Spawn(do_action) ----
Callback_action(S, item) ==
    IF item <= MaxPosts
    THEN S
    ELSE IF S.cbr[item - MaxPosts].spawn
         THEN Spawn_init([S EXCEPT !.cbr[item - MaxPosts].task = NextTask(S)],
                         NextTask(S), FALSE)
         ELSE do_action_begin([S EXCEPT !.cb_pc = "do_action"],
                              item - MaxPosts, S.callback.task)

\* ---- _Callback.callback_events: `while self.values:` popleft and the call
\* of the action, or the end of that loop ----
Callback_drain ==
    /\ Dispatcher("drain")
    /\ IF callback.values # <<>>
       THEN TaskStep(Callback_action(
                        [Cur EXCEPT
                            !.callback.values = Tail(@),
                            !.cb_seen.ran = Append(@, Head(callback.values))],
                        Head(callback.values)))
       ELSE TaskStep([Cur EXCEPT !.cb_pc = "waiting"])

DispatcherNext ==
    \/ Callback_waiting
    \/ Callback_values
    \/ Callback_read
    \/ Callback_drain

\* ---- _Callback.__call__ in OS thread th, a step for each access to what
\* the threads share: self.values.append ----
Callback_call_append(th) ==
    /\ callback.task # NoTask
    /\ threads[th] = "idle"
    /\ Len(cb_seen.posted) < MaxPosts
    /\ LET action == Len(cb_seen.posted) + 1
       IN  TaskStep([Cur EXCEPT !.callback.values = Append(@, action),
                                !.cb_seen.posted = Append(@, action),
                                !.threads[th] = "test"])

\* `if self.waiting:`
Callback_call_test(th) ==
    /\ threads[th] = "test"
    /\ TaskStep([Cur EXCEPT !.threads[th] =
                    IF callback.waiting THEN "clear" ELSE "idle"])

\* a faulty variant: the thread writes without clearing the flag
Callback_call_clear_kept(th) ==
    /\ threads[th] = "clear"
    /\ TaskStep([Cur EXCEPT !.threads[th] = "write"])

\* self.waiting = False
Callback_call_clear(th) ==
    /\ threads[th] = "clear"
    /\ TaskStep([Cur EXCEPT !.callback.waiting = FALSE,
                            !.threads[th] = "write"])

\* os.write(self.signal, b'-')
Callback_call_write(th) ==
    /\ threads[th] = "write"
    /\ TaskStep([Cur EXCEPT !.callback.pipe = @ + 1,
                            !.threads[th] = "idle"])

\* the steps that take thread th through a call it has begun
ThreadNext(th) ==
    \/ Callback_call_test(th)
    \/ Callback_call_clear(th)
    \/ Callback_call_write(th)

\* ---- CallbackResult(action) in OS thread th: the event and action_result
\* are created and do_action is posted, as far as the append of
\* _Callback.__call__.  A call with callback_spawn needs a coroutine that
\* Spawn can still create. ----
CallbackResult(th, spawn, timeout) ==
    /\ callback.task # NoTask
    /\ threads[th] = "idle"
    /\ cbr[th].pc = "idle"
    /\ spawn =>
          Cardinality({u \in Tasks : pc[u] = "unborn"}) >
          Cardinality({x \in Threads : cbr[x].spawn /\ cbr[x].task = NoTask})
    /\ TaskStep([Cur EXCEPT
                    !.cbr[th] = [NoCall EXCEPT !.pc = "wait", !.spawn = spawn,
                                               !.timeout = timeout],
                    !.callback.values = Append(@, do_action(th)),
                    !.cb_seen.posted = Append(@, do_action(th)),
                    !.threads[th] = "test"])

\* a faulty variant: event.wait does not wait for the event
Event_wait_returns_at_once(call) == TRUE

\* ---- threading.Event.wait returns True ----
Event_wait(call) == call.event

\* ---- CallbackResult after event.wait has returned True: the result is
\* returned or the exception raised ----
CallbackResult_outcome(action_result) ==
    IF action_result[1] THEN Returned(action_result[2]) ELSE Raised(action_result[2])

CallbackResult_return(th) ==
    /\ cbr[th].pc = "wait"
    /\ threads[th] = "idle"
    /\ Event_wait(cbr[th])
    /\ TaskStep([Cur EXCEPT
                    !.cbr[th].pc = "done",
                    !.cbr[th].out = CallbackResult_outcome(cbr[th].action_result)])

\* ---- CallbackResult: event.wait(timeout) returns False, Timedout is raised ----
CallbackResult_timeout(th) ==
    /\ cbr[th].pc = "wait"
    /\ threads[th] = "idle"
    /\ cbr[th].timeout # NoDeadline
    /\ ~cbr[th].event
    /\ TaskStep([Cur EXCEPT !.cbr[th].pc = "done", !.cbr[th].out = TimedOut])

\* ---- do_action begins in the coroutine Spawn made for it ----
CallbackResult_do_action(t) ==
    /\ Running(t)
    /\ \E th \in Threads :
          /\ cbr[th].task = t
          /\ cbr[th].f = "none"
          /\ TaskStep(do_action_begin(Cur, th, t))

\* ---- the action called by do_action ends with the outcome; do_action
\* returns, to callback_events or to Spawn.__run ----
CallbackResult_action_ends(t, outcome) ==
    /\ current = t
    /\ \E th \in Threads :
          /\ cbr[th].task = t
          /\ cbr[th].f = "running"
          /\ IF t = callback.task
             THEN /\ Dispatcher("do_action")
                  /\ TaskStep(do_action_end([Cur EXCEPT !.cb_pc = "drain"], th, outcome))
             ELSE /\ Running(t)
                  /\ TaskStep(Spawn_run(do_action_end(Cur, th, outcome), t, Returned(0)))

\* ---- CallbackResult(action) in a coroutine of the scheduler thread: the
\* action is called there and then ----
CallbackResult_direct(t, outcome) ==
    /\ Running(t)
    /\ TaskStep(Return(Cur, t,
                       IF outcome.is = "ok" THEN "CallbackResult"
                       ELSE "CallbackResult raise", outcome.value))

\* ---- EventQueue.Wait: the loop `while not self.__queue and not
\* self.__closed: self._WaitUntil(deadline)` and the code after it ----
EventQueue_Wait_loop(S, t, deadline) ==
    IF S.queue = <<>> /\ ~S.closed
    THEN Scheduler_wait_until(S, t, "EventQueue.Wait", deadline, "eq", NoTask)
    ELSE IF S.queue # <<>>
         THEN Return([S EXCEPT !.queue = Tail(@),
                               !.received = Append(@, Head(S.queue))],
                     t, "EventQueue.Wait", Head(S.queue))
         ELSE Return(S, t, "StopIteration", 0)

EventQueue_Wait(t, timeout) ==
    /\ Running(t)
    /\ TaskStep(EventQueue_Wait_loop(Cur, t, GetDeadline(timeout, now)))

EventQueue_Wait_resume(S, t, reason) ==
    IF reason = WAKEUP_TIMEOUT
    THEN Return(S, t, "Timedout", 0)
    ELSE EventQueue_Wait_loop(S, t, S.locals[t].until)

\* ---- EventQueue.Signal: the state and the value returned; on a closed
\* queue the assert raises and nothing changes ----
EventQueue_Signal_do(S, value) ==
    IF S.closed
    THEN [S |-> S, ret |-> "AssertionError"]
    ELSE IF Len(S.queue) < MaxLength
         THEN CHOOSE R \in
                {[S |-> IF r.ret THEN r.S ELSE [r.S EXCEPT !.queue = Tail(@)],
                  ret |-> "True"] :
                    r \in {EventBase_Wakeup([S EXCEPT !.queue = Append(@, value)],
                                            "eq", FALSE)}} : TRUE
         ELSE [S |-> S, ret |-> "False"]

EventQueue_Signal(t) ==
    /\ Running(t)
    /\ eq_signalled < MaxSignals
    /\ \E value \in {eq_signalled + 1} :
       \E r \in {EventQueue_Signal_do(Cur, value)} :
           TaskStep(Note([r.S EXCEPT
                            !.signalled = value,
                            !.accepted = IF r.ret = "True" THEN Append(@, value)
                                         ELSE @],
                         "EventQueue.Signal " \o r.ret, t, value))

\* a faulty variant: close wakes one waiter only
EventQueue_close_wake_one(S) ==
    EventBase_Wakeup([S EXCEPT !.closed = TRUE], "eq", FALSE).S

\* ---- EventQueue.close ----
EventQueue_close_do(S) ==
    EventBase_Wakeup([S EXCEPT !.closed = TRUE], "eq", TRUE).S

EventQueue_close(t) ==
    /\ Running(t)
    /\ ~eq_closed
    /\ TaskStep(Note(EventQueue_close_do(Cur), "EventQueue.close", t, 0))

\* a faulty variant: the credit is noted whatever the queue holds
EventQueue_AbortWait_do_always_credit(S) ==
    [S EXCEPT !.abort["eq"] = @ + 1]

\* ---- EventQueue.AbortWait ----
EventQueue_AbortWait_do(S) ==
    IF S.queue # <<>>
    THEN [S EXCEPT !.queue = Tail(@)]
    ELSE IF ~S.closed
         THEN [S EXCEPT !.abort["eq"] = @ + 1]
         ELSE S

EventQueue_AbortWait(t) ==
    /\ Running(t)
    /\ wait_abort["eq"] < MaxAborts
    /\ TaskStep(Note(EventQueue_AbortWait_do(Cur), "EventQueue.AbortWait", t, 0))

\* ---- EventQueue.Reset ----
EventQueue_Reset(t) ==
    /\ Running(t)
    /\ TaskStep(Note([Cur EXCEPT !.queue = <<>>], "EventQueue.Reset", t, 0))

\* ---- RLock.acquire ----
\* the else branch after self.__event.Wait(timeout) has returned in task t:
\* ownership is taken.  S is the state Event.Wait leaves, in which the task
\* may as well be suspended or have Timedout raised.
RLock_take(S, t) ==
    IF S.pc[t] = "run" /\ S.last.op = "RLock.acquire"
    THEN [S EXCEPT !.owner = t, !.count = 1, !.holds[t] = @ + 1]
    ELSE S

\* a faulty variant: the owner is not recognised and waits for the event too
RLock_acquire_do_always_waits(S, t, deadline) ==
    RLock_take(Event_Wait_loop(S, t, "lk", deadline, "RLock.acquire"), t)

RLock_acquire_do(S, t, deadline) ==
    IF S.owner # NoTask /\ S.owner = t
    THEN [Return(S, t, "RLock.acquire", 0) EXCEPT
            !.count = @ + 1, !.holds[t] = @ + 1]
    ELSE RLock_take(Event_Wait_loop(S, t, "lk", deadline, "RLock.acquire"), t)

\* the owner nests no deeper than MaxDepth
RLock_acquire(t, timeout) ==
    /\ Running(t)
    /\ rl_owner # t \/ rl_count < MaxDepth
    /\ TaskStep(RLock_acquire_do(Cur, t, GetDeadline(timeout, now)))

RLock_acquire_resume(S, t, reason) ==
    RLock_take(Event_Wait_resume(S, t, reason, "RLock.acquire"), t)

\* a faulty variant: the event is signalled before the count reaches zero
RLock_release_do_early_signal(S, t) ==
    IF ~(S.owner # NoTask /\ S.owner = t)
    THEN Note(S, "AssertionError", t, 0)
    ELSE LET S1 == Note([S EXCEPT !.count = @ - 1, !.holds[t] = @ - 1],
                        "RLock.release", t, 0)
         IN  Event_Signal_do([S1 EXCEPT !.owner = IF S1.count = 0 THEN NoTask ELSE @],
                             "lk", 0)

\* ---- RLock.release; by a task that is not the owner the assert raises ----
RLock_release_do(S, t) ==
    IF ~(S.owner # NoTask /\ S.owner = t)
    THEN Note(S, "AssertionError", t, 0)
    ELSE LET S1 == Note([S EXCEPT !.count = @ - 1, !.holds[t] = @ - 1],
                        "RLock.release", t, 0)
         IN  IF S1.count = 0
             THEN Event_Signal_do([S1 EXCEPT !.owner = NoTask], "lk", 0)
             ELSE S1

RLock_release(t) ==
    /\ Running(t)
    /\ TaskStep(RLock_release_do(Cur, t))

\* ---- _Scheduler.__tick up to its for loop ----
Scheduler_tick_wake(S, time) ==
    CHOOSE S2 \in
        {IF S1.ready = <<>> THEN WakeupQueue_wake(S1, YieldQueue, TRUE) ELSE S1 :
            S1 \in {TimerQueue_wake_expired(S, time)}} : TRUE

Scheduler_tick ==
    /\ current = Scheduler
    /\ sched_pc = "tick"
    /\ \E S \in {Scheduler_tick_wake(Cur, now)} :
          Commit([S EXCEPT !.ready = <<>>, !.tick = S.ready])
    /\ sched_pc' = "dispatch"
    /\ UNCHANGED <<now, poll_until>>

\* ------------------------------------------------------------------------
\* catools.  The library thread delivers connection events and updates; each
\* block a thread runs under _Subscription.__lock, and each stretch of a
\* coroutine between two suspensions, is one step.

\* a faulty variant: the request is made and the event is not signalled
FlushIo_call_unsignalled(S) ==
    [S EXCEPT !.ca.requests = IF @ = 0 THEN 1 ELSE 2]

\* ---- _FlushIo.__call__: self._flush_io_event.Signal() ----
\* The requests are counted 0, 1, many (observation).
FlushIo_call(S) ==
    Event_Signal_do([S EXCEPT !.ca.requests = IF @ = 0 THEN 1 ELSE 2], "fl", 0)

\* ---- _Callback.__call__ of _Subscription.__Callback: __signal is queued
\* with its argument ----
Monitor_call(S, s, value) ==
    [S EXCEPT !.ca.values = Append(@, [sub |-> s, value |-> value])]

\* a faulty variant: every merged update queues a call of __signal
Subscription_maybe_signal_do_posts_each(sub, value) ==
    IF sub.all_updates
    THEN [sub |-> [sub EXCEPT !.latest = value.n],
          post |-> TRUE, value |-> [value EXCEPT !.update_count = 1]]
    ELSE [sub |-> [sub EXCEPT !.value = value, !.update_count = @ + 1,
                              !.latest = value.n, !.counted = @ + 1,
                              !.overtaken = @ \/ (sub.update_count > 0
                                            /\ sub.value.kind = "ca_nothing")],
          post |-> TRUE, value |-> NoValue]

\* ---- _Subscription.__maybe_signal: the subscription it leaves, and whether
\* it queues a call of __signal and with which argument ----
Subscription_maybe_signal_do(sub, value) ==
    IF sub.all_updates
    THEN [sub |-> [sub EXCEPT !.latest = value.n],
          post |-> TRUE, value |-> [value EXCEPT !.update_count = 1]]
    ELSE [sub |-> [sub EXCEPT !.value = value, !.update_count = @ + 1,
                              !.latest = value.n, !.counted = @ + 1,
                              !.overtaken = @ \/ (sub.update_count > 0
                                            /\ sub.value.kind = "ca_nothing")],
          post |-> sub.update_count = 0, value |-> NoValue]

Subscription_maybe_signal(S, s, value) ==
    CHOOSE S1 \in
        {IF r.post
         THEN Monitor_call([S EXCEPT !.ca.subs[s] = r.sub], s, r.value)
         ELSE [S EXCEPT !.ca.subs[s] = r.sub] :
            r \in {Subscription_maybe_signal_do(S.ca.subs[s], value)}} : TRUE

\* ---- _Subscription.__on_event, on the library thread ----
\* status is args.status; decoded tells whether dbr_to_value returns.
Subscription_on_event(S, s, status, decoded) ==
    LET n  == S.ca.subs[s].received + 1
        S1 == [S EXCEPT !.ca.subs[s].received = n, !.ca.updates = @ + 1,
                        !.last.op = "on_event", !.last.aux = s, !.last.val = n]
    IN  IF status = "ECA_NORMAL"
        THEN IF decoded
             THEN Subscription_maybe_signal(S1, s, Update("value", n))
             ELSE Monitor_call(S1, s, Update("exc_info", n))
        ELSE IF S.ca.subs[s].notify_disconnect
             THEN Subscription_maybe_signal(S1, s, Update("ca_nothing", n))
             ELSE S1

\* The subscription is open and _as_parameter_ was never assigned:
\* ca_clear_subscription(self) cannot convert its argument, and close ends
\* with that exception after _remove_subscription, which is noted in handle.
NoHandle(S, s) ==
    S.ca.subs[s].state = "OPEN" /\ S.ca.subs[s].handle \in {"none", "missing"}

\* a faulty variant: close does not wake the helper
Subscription_close_silent(S, s) ==
    LET S1 == CASE S.ca.subs[s].state = "OPEN" ->
                    FlushIo_call([S EXCEPT !.ca.subscriptions = @ \ {s},
                                           !.ca.subs[s].handle = "cleared",
                                           !.ca.subs[s].clears = IF @ = 0 THEN 1 ELSE 2])
                [] OTHER -> S
    IN  [S1 EXCEPT !.ca.subs[s].callback = FALSE, !.ca.subs[s].state = "CLOSED",
                   !.last.calls = IF S.ca.subs[s].state = "CLOSED" THEN 1 ELSE 0]

\* ---- _Subscription.close ----
\* channel.Wakeup() is Pulse.Signal(), which wakes every waiter.  The calls of
\* ca_clear_subscription are counted 0, 1, many, and the step notes whether
\* the subscription was closed already (observation).  The coroutine
\* of __delete only keeps the object referenced for 0.1 s and is left out.
Subscription_close(S, s) ==
    LET S1 == CASE S.ca.subs[s].state = "OPENING" ->
                    EventBase_Wakeup(S, "ce", TRUE).S
                [] S.ca.subs[s].state = "OPEN" ->
                    FlushIo_call([S EXCEPT !.ca.subscriptions = @ \ {s},
                                           !.ca.subs[s].handle = "cleared",
                                           !.ca.subs[s].clears = IF @ = 0 THEN 1 ELSE 2])
                [] OTHER -> S
    IN  IF NoHandle(S, s)
        THEN [S EXCEPT !.ca.subscriptions = @ \ {s},
                       !.ca.subs[s].handle = "missing"]
        ELSE [S1 EXCEPT !.ca.subs[s].callback = FALSE,
                        !.ca.subs[s].state = "CLOSED",
                        !.last.calls = IF S.ca.subs[s].state = "CLOSED" THEN 1 ELSE 0]

\* a faulty variant: the except clause leaves the subscription open
Subscription_signal_except_open(S, s) == [S EXCEPT !.ca.logged = TRUE]

\* the except clause of __signal: the traceback is printed, the subscription
\* closed
Subscription_signal_except(S, s) ==
    [Subscription_close([S EXCEPT !.ca.logged = TRUE], s)
        EXCEPT !.last.calls = S.last.calls]

\* a faulty variant: a closed subscription is told as well
Subscription_signal_state_closed(sub) == FALSE

\* the test `self.__state != self.__CLOSED` of __signal, negated
Subscription_signal_state(sub) == sub.state = "CLOSED"

\* ---- _Subscription.__signal, run by the task of callback_events ----
\* outcome tells how self.callback(value) ends.  The step notes the update
\* the user is told of and its update_count (observation).
Subscription_signal(S, s, value, outcome) ==
    LET sub == S.ca.subs[s]
        v   == IF value = NoValue
               THEN [sub.value EXCEPT !.update_count = sub.update_count]
               ELSE value
        S1  == IF value = NoValue
               THEN [S EXCEPT !.ca.subs[s].value = NoValue,
                              !.ca.subs[s].update_count = 0,
                              !.ca.subs[s].counted = 0]
               ELSE S
        S2  == [S1 EXCEPT !.ca.subs[s].delivered = v.n,
                          !.ca.subs[s].nothings =
                                IF v.kind # "ca_nothing" THEN @
                                ELSE IF @ = 0 THEN 1 ELSE 2,
                          !.last.aux = s, !.last.val = v.n,
                          !.last.calls = v.update_count]
    IN  IF Subscription_signal_state(sub)
        THEN [S EXCEPT !.last.op = "skipped", !.last.aux = s]
        ELSE IF v.kind = "exc_info"
             THEN Subscription_signal_except(
                      [S2 EXCEPT !.last.op = "report", !.last.via = "raise"], s)
             ELSE IF outcome = "raise"
                  THEN Subscription_signal_except(
                           [S2 EXCEPT !.last.op = "callback", !.last.via = "raise",
                                      !.ca.subs[s].failed = TRUE], s)
                  ELSE [S2 EXCEPT !.last.op = "callback"]

\* ---- _Callback.callback_events of _Subscription.__Callback: the next
\* action of the deque is run.  The task of callback_events is not one of
\* Tasks: it runs when the scheduler coroutine would resume it, between two
\* tasks of a tick. ----
Monitor_callback_events(outcome) ==
    /\ current = Scheduler
    /\ sched_pc = "dispatch"
    /\ ca.values # <<>>
    /\ Commit(Subscription_signal([Cur EXCEPT !.ca.values = Tail(@)],
                                  ca.values[1].sub, ca.values[1].value, outcome))
    /\ UNCHANGED <<now, sched_pc, poll_until>>

\* ---- the library calls __on_event (its thread runs beside the coroutines) ----
on_event(s, status, decoded) ==
    /\ ca.subs[s].handle # "none"
    /\ ca.updates < MaxUpdates
    /\ Commit(Subscription_on_event(Cur, s, status, decoded))
    /\ UNCHANGED <<now, sched_pc, poll_until>>

\* ---- Channel.__init__: ca_create_channel, _flush_io ----
Channel_init(S) == FlushIo_call([S EXCEPT !.ca.channel = "created"])

\* ---- ChannelCache.__getitem__: the channel is created on a miss ----
ChannelCache_getitem(S) == IF S.ca.channel = "none" THEN Channel_init(S) ELSE S

\* ---- _Subscription.__init__ ----
Subscription_init(S, s, u, all_updates, notify_disconnect, connect_timeout) ==
    Spawn_init(
        [ChannelCache_getitem(S) EXCEPT !.ca.subs[s] =
            [NoSubscription EXCEPT !.state = "OPENING", !.callback = TRUE,
                                   !.all_updates = all_updates,
                                   !.notify_disconnect = notify_disconnect,
                                   !.helper = u,
                                   !.connect_timeout = connect_timeout]],
        u, FALSE)

camonitor(t, s, u, all_updates, notify_disconnect, connect_timeout) ==
    /\ Running(t)
    /\ ca.channel # "cleared"
    /\ ca.subs[s].state = "none"
    /\ \A r \in 1 .. (s - 1) : ca.subs[r].state # "none"
    /\ pc[u] = "unborn"
    /\ \A v \in 1 .. (u - 1) : pc[v] # "unborn"
    /\ TaskStep(Note(Subscription_init(Cur, s, u, all_updates, notify_disconnect,
                                       connect_timeout), "camonitor", t, s))

\* ---- camonitor with arguments for which __create_subscription will fail
\* after it has set the state: dbr.type_to_dbr raises for the datatype, or
\* ca_create_subscription does not return ECA_NORMAL ----
camonitor_fails(t, s, u, fails) ==
    /\ Running(t)
    /\ ca.channel # "cleared"
    /\ ca.subs[s].state = "none"
    /\ \A r \in 1 .. (s - 1) : ca.subs[r].state # "none"
    /\ pc[u] = "unborn"
    /\ \A v \in 1 .. (u - 1) : pc[v] # "unborn"
    /\ TaskStep(Note([Subscription_init(Cur, s, u, FALSE, FALSE, NoDeadline)
                        EXCEPT !.ca.subs[s].fails = fails],
                     "camonitor", t, s))

\* ---- subscription.close() called by a task ----
close(t, s) ==
    /\ Running(t)
    /\ ca.subs[s].state # "none"
    /\ TaskStep([Note(Subscription_close(Cur, s),
                      IF NoHandle(Cur, s) THEN "close raise" ELSE "close", t, s)
                    EXCEPT !.last.aux = s])

\* the subscription whose __create_subscription coroutine t runs
IsHelper(S, t) == \E s \in Subs : S.ca.subs[s].helper = t
HelperOf(S, t) == CHOOSE s \in Subs : S.ca.subs[s].helper = t

\* ---- _Subscription.__create_subscription after __wait_for_channel: with
\* False it returns; else the subscription is opened, added to the channel
\* and created, and the coroutine ends ----
Subscription_create_subscription(S, t, s, waited) ==
    IF waited
    THEN IF S.ca.subs[s].fails = "no"
         THEN Spawn_run(FlushIo_call([S EXCEPT !.ca.subs[s].state = "OPEN",
                                               !.ca.subscriptions = @ \cup {s},
                                               !.ca.subs[s].handle = "created"]),
                        t, Returned(0))
         ELSE Spawn_run([S EXCEPT !.ca.subs[s].state = "OPEN",
                                  !.ca.subscriptions = @ \cup {s},
                                  !.ca.logged = TRUE],
                        t, Raised(0))
    ELSE Spawn_run(S, t, Returned(0))

\* ---- _Subscription.__wait_for_channel from the top of its loop, with
\* Channel.WakeableWait up to the Wait of the Pulse ----
Subscription_wait_for_channel(S, t, s, timeout) ==
    IF S.ca.subs[s].state # "OPENING"
    THEN Subscription_create_subscription(S, t, s, FALSE)
    ELSE IF S.ca.connected
         THEN Subscription_create_subscription(S, t, s, TRUE)
         ELSE Scheduler_wait_until(S, t, "Pulse.Wait", timeout, "ce", NoTask)

\* a faulty variant: a timeout is reported by the value False
Channel_WakeableWait_returns_false(S, reason) ==
    IF S.ca.connected THEN "True" ELSE "False"

\* ---- Channel.WakeableWait after the Wait of the Pulse: Timedout raised by
\* the Wait passes through it; else it returns __connected ----
Channel_WakeableWait(S, reason) ==
    IF reason = WAKEUP_TIMEOUT
    THEN "Timedout"
    ELSE IF S.ca.connected THEN "True" ELSE "False"

\* a faulty variant: the timeout is kept after it has expired
Subscription_resume_keeps_timeout(S, t, reason) ==
    LET s == HelperOf(S, t)
        n == S.ca.subs[s].received + 1
    IN  IF reason = WAKEUP_TIMEOUT
        THEN Subscription_wait_for_channel(
                 Subscription_maybe_signal([S EXCEPT !.ca.subs[s].received = n,
                                                     !.ca.subs[s].timedout = TRUE],
                                           s, Update("ca_nothing", n)),
                 t, s, S.locals[t].until)
        ELSE IF S.ca.connected
             THEN Subscription_create_subscription(
                      S, t, s, S.ca.subs[s].state = "OPENING")
             ELSE Subscription_wait_for_channel(S, t, s, S.locals[t].until)

\* ---- the Wait of the Pulse returns into WakeableWait, or raises Timedout
\* into __wait_for_channel ----
Subscription_resume(S, t, reason) ==
    LET s == HelperOf(S, t)
        n == S.ca.subs[s].received + 1
        woke == Channel_WakeableWait(S, reason)
        S0 == [S EXCEPT !.ca.subs[s].woke = woke]
    IN  IF woke = "Timedout"
        THEN Subscription_wait_for_channel(
                 Subscription_maybe_signal([S0 EXCEPT !.ca.subs[s].received = n,
                                                      !.ca.subs[s].timedout = TRUE],
                                           s, Update("ca_nothing", n)),
                 t, s, NoDeadline)
        ELSE IF woke = "True"
             THEN Subscription_create_subscription(
                      S0, t, s, S.ca.subs[s].state = "OPENING")
             ELSE Subscription_wait_for_channel(S0, t, s, S.locals[t].until)

\* ---- Channel.on_ca_connect_, run by the task of the Callback queue ----
\* Each subscription of __subscriptions is told with _on_connect.
Channel_on_ca_connect_(S, connected) ==
    LET S1 == IF connected
              THEN EventBase_Wakeup([S EXCEPT !.ca.connected = TRUE], "ce", TRUE).S
              ELSE [S EXCEPT !.ca.connected = FALSE]
        told == {s \in S.ca.subscriptions :
                    ~connected /\ S.ca.subs[s].notify_disconnect}
        r == [s \in Subs |->
                Subscription_maybe_signal_do(
                    [S.ca.subs[s] EXCEPT !.received = @ + 1],
                    Update("ca_nothing", S.ca.subs[s].received + 1))]
        posts == SelectSeq([s \in 1 .. NSubs |-> s],
                           LAMBDA s : s \in told /\ r[s].post)
    IN  [S1 EXCEPT !.ca.updates = @ + Cardinality(told),
                   !.ca.subs = [s \in Subs |-> IF s \in told THEN r[s].sub ELSE @[s]],
                   !.ca.values = @ \o [i \in 1 .. Len(posts) |->
                                        [sub |-> posts[i], value |-> r[posts[i]].value]]]

on_ca_connect(connected) ==
    /\ current = Scheduler
    /\ sched_pc = "dispatch"
    /\ ca.channel = "created"
    /\ ca.connected # connected
    /\ ca.updates < MaxUpdates
    /\ Commit([Channel_on_ca_connect_(Cur, connected) EXCEPT
                    !.last.op = "on_ca_connect"])
    /\ UNCHANGED <<now, sched_pc, poll_until>>

\* ---- Channel._purge: the subscriptions of __subscriptions are closed, then
\* ca_clear_channel ----
RECURSIVE Channel_purge_close(_, _)
Channel_purge_close(S, subscriptions) ==
    IF subscriptions = {}
    THEN S
    ELSE LET s == CHOOSE x \in subscriptions : \A y \in subscriptions : x <= y
         IN  IF NoHandle(S, s)
             THEN Subscription_close(S, s)
             ELSE Channel_purge_close(Subscription_close(S, s), subscriptions \ {s})

\* an exception of close ends the purge before ca_clear_channel
Channel_purge(S) ==
    LET S1 == Channel_purge_close(S, S.ca.subscriptions)
    IN  IF \E s \in Subs : S1.ca.subs[s].handle = "missing"
        THEN S1
        ELSE [S1 EXCEPT !.ca.channel = "cleared"]

\* ---- ChannelCache.purge, called by _catools_atexit ----
ChannelCache_purge(S) ==
    IF S.ca.channel = "created" THEN Channel_purge(S) ELSE S

catools_atexit(t) ==
    /\ Running(t)
    /\ ca.channel = "created"
    /\ TaskStep(Note(ChannelCache_purge(Cur), "purge", t, 0))

\* ---- _FlushIo.__init__: the Event and Spawn(_dispatch_flush_io), when
\* catools is imported ----
FlushIo_init(t, u) ==
    /\ Running(t)
    /\ ca.flusher = NoTask
    /\ ca.channel = "none"
    /\ pc[u] = "unborn"
    /\ \A v \in 1 .. (u - 1) : pc[v] # "unborn"
    /\ TaskStep(Spawn_init([Cur EXCEPT !.ca.flusher = u], u, FALSE))

\* ---- _FlushIo._dispatch_flush_io from the top of its loop: Event.Wait,
\* which resets the event when it returns, then ca_flush_io, then Event.Wait
\* again.  The requests served and the calls of ca_flush_io in this stretch
\* are noted (observation).
FlushIo_dispatch_flush_io(S, t) ==
    IF S.value["fl"] = <<>>
    THEN Scheduler_wait_until(S, t, "FlushIo.Wait", NoDeadline, "fl", NoTask)
    ELSE Scheduler_wait_until(
             [Event_Reset(S, "fl") EXCEPT !.ca.requests = 0,
                                          !.last.op = "ca_flush_io",
                                          !.last.aux = S.ca.requests,
                                          !.last.calls = 1],
             t, "FlushIo.Wait", NoDeadline, "fl", NoTask)

\* ---- Channel.Wait from the top of its loop, with ca_timeout up to the Wait
\* of the Pulse ----
Channel_Wait(S, t, timeout) ==
    IF S.ca.connected
    THEN Return(S, t, "Channel.Wait", 0)
    ELSE Scheduler_wait_until(S, t, "Channel.Wait", timeout, "ce", NoTask)

\* a faulty variant: a wait whose deadline has passed raises at once
Channel_Wait_call_raises_at_once(S, t, timeout) ==
    LET ahead == {e.task : e \in Range(S.ready) \cup Range(S.tick)}
    IN  IF ~S.ca.connected /\ timeout # NoDeadline /\ timeout <= S.time
        THEN [Return(S, t, "ECA_TIMEOUT", Cardinality(ahead)) EXCEPT
                    !.last.via = "raise", !.last.aux = Cardinality(ahead)]
        ELSE Channel_Wait(S, t, timeout)

\* ---- the call of Channel.Wait; the tasks ready at the call are noted for
\* the caller (observation) ----
Channel_Wait_call(S, t, timeout) ==
    LET ahead == {e.task : e \in Range(S.ready) \cup Range(S.tick)}
        S1 == Channel_Wait(S, t, timeout)
    IN  IF S1.pc[t] = "Channel.Wait"
        THEN [S1 EXCEPT !.pending[t] = ahead,
                        !.locals[t].nready = Cardinality(ahead)]
        ELSE S1

\* ---- caget_one / caput_one up to the end of channel.Wait(timeout):
\* AbsTimeout, _channel_cache[pv], Channel.Wait ----
caget_one(t, timeout) ==
    /\ Running(t)
    /\ ca.channel # "cleared"
    /\ TaskStep(Channel_Wait_call(ChannelCache_getitem(Cur), t,
                                  GetDeadline(timeout, now)))

\* ---- ca_timeout: the Wait of the Pulse returns into the loop of
\* Channel.Wait, or Timedout becomes ca_nothing(name, ECA_TIMEOUT), which
\* caget_one raises.  Noted with it: the number of tasks ready at the call
\* (val) and how many of them have not run since (aux).
Channel_Wait_resume(S, t, reason) ==
    IF reason = WAKEUP_TIMEOUT
    THEN [Return([S EXCEPT !.pending[t] = {}], t, "ECA_TIMEOUT",
                 S.locals[t].nready) EXCEPT
                !.last.via = "raise", !.last.aux = Cardinality(S.pending[t])]
    ELSE LET S1 == Channel_Wait(S, t, S.locals[t].until)
         IN  IF S1.pc[t] = "Channel.Wait"
             THEN [S1 EXCEPT !.locals[t].nready = S.locals[t].nready]
             ELSE [S1 EXCEPT !.pending[t] = {}]

\* ---- caput_one(pv, value) with wait = False on a connected channel:
\* ca_array_put, _flush_io, and ca_nothing(pv) is returned ----
caput_one(t) ==
    /\ Running(t)
    /\ ca.connected
    /\ TaskStep(Note(FlushIo_call(Cur), "caput", t, 0))

\* ---- Event.SignalException (auto_reset = True) ----
Event_SignalException_do(S, e, v) ==
    CHOOSE S1 \in
        {IF r.ret THEN r.S ELSE Event_Reset(r.S, e) :
            r \in {EventBase_Wakeup([S EXCEPT !.value[e] = <<FALSE, v>>], e, FALSE)}} :
        TRUE

\* ---- caget_one, and caput_one with wait or a callback, after channel.Wait
\* on a connected channel: Py_IncRef(context), ca_array_get_callback or
\* ca_array_put_callback, which raises CAException unless the library
\* returns ECA_NORMAL, _flush_io, and ca_timeout(done, timeout, pv) up to the
\* Wait of the Event; a put without wait returns ca_nothing(pv) ----
ca_request(S, t, kind, wait, timeout, status) ==
    LET S1 == [S EXCEPT !.ca.context[t] =
                    [NoContext EXCEPT !.kind = kind, !.done = wait, !.incs = 1]]
    IN  IF status # "ECA_NORMAL"
        THEN [Return([S1 EXCEPT !.ca.context[t].ended = "CAException"],
                     t, "CAException", 0) EXCEPT !.last.via = "raise"]
        ELSE LET S2 == FlushIo_call([S1 EXCEPT !.ca.context[t].handed = TRUE])
             IN  IF wait
                 THEN Event_Wait_loop(S2, t, DoneEvent(t), timeout, "ca_timeout")
                 ELSE Return(S2, t, "caput_one", 0)

caget_one_connected(t, timeout, status) ==
    /\ Running(t)
    /\ ca.connected
    /\ ca.context[t].kind = "none"
    /\ TaskStep(ca_request(Cur, t, "get", TRUE, GetDeadline(timeout, now), status))

caput_one_callback(t, wait, timeout, status) ==
    /\ Running(t)
    /\ ca.connected
    /\ ca.context[t].kind = "none"
    /\ TaskStep(ca_request(Cur, t, "put", wait, GetDeadline(timeout, now), status))

\* ---- ca_timeout: the Wait of the Event returns or raises what the handler
\* signalled, or Timedout becomes ca_nothing(name, ECA_TIMEOUT) ----
ca_timeout_resume(S, t, reason) ==
    IF reason = WAKEUP_TIMEOUT
    THEN [Return([S EXCEPT !.ca.context[t].ended = "ECA_TIMEOUT"],
                 t, "ca_timeout", 0) EXCEPT !.last.via = "raise"]
    ELSE LET S1 == Event_Wait_loop(S, t, S.locals[t].obj, S.locals[t].until,
                                   "ca_timeout")
         IN  IF S1.pc[t] = "ca_timeout"
             THEN S1
             ELSE [S1 EXCEPT !.ca.context[t].ended = "completed"]

\* ---- _caget_event_handler / _caput_event_handler, which the library calls
\* once for a request it holds: Py_DecRef(args.usr), and done, if there is
\* one, is signalled through cothread.Callback ----
ca_event_handler(S, t, status) ==
    LET c  == S.ca.context[t]
        S1 == [S EXCEPT !.ca.context[t].decs = @ + 1,
                        !.ca.context[t].handed = FALSE,
                        !.ca.context[t].ended = IF c.done THEN @ ELSE "completed"]
    IN  IF ~c.done
        THEN S1
        ELSE IF status = "ECA_NORMAL"
             THEN Event_Signal_do(S1, DoneEvent(t), 0)
             ELSE Event_SignalException_do(S1, DoneEvent(t), 0)

\* the request of task t completes; a scheduler blocked in its poll is woken
\* by the byte the Callback writes
on_ca_completion(t, status) ==
    /\ current = Scheduler
    /\ sched_pc \in {"dispatch", "poll"}
    /\ ca.context[t].handed
    /\ Commit([ca_event_handler(Cur, t, status) EXCEPT
                    !.last.op = "event_handler", !.last.task = t])
    /\ sched_pc' = IF sched_pc = "poll" THEN "tick" ELSE sched_pc
    /\ poll_until' = IF sched_pc = "poll" THEN NoDeadline ELSE poll_until
    /\ UNCHANGED now

\* a faulty variant: Disconnected is not among the exceptions caught
maybe_throw_misses_Disconnected(throw, pv, outcome) ==
    IF throw \/ outcome.is = "ok"
    THEN outcome
    ELSE CASE outcome.value.kind = "ca_nothing" -> Returned(outcome.value)
           [] outcome.value.kind = "CAException" ->
                Returned(ca_nothing(pv, outcome.value.errorcode))
           [] OTHER -> outcome

\* ---- maybe_throw: throw_wrapper(pv, ..., throw) around a function that
\* ended with outcome ----
maybe_throw(throw, pv, outcome) ==
    IF throw \/ outcome.is = "ok"
    THEN outcome
    ELSE CASE outcome.value.kind = "ca_nothing" -> Returned(outcome.value)
           [] outcome.value.kind = "CAException" ->
                Returned(ca_nothing(pv, outcome.value.errorcode))
           [] outcome.value.kind = "Disconnected" ->
                Returned(ca_nothing(pv, "ECA_DISCONN"))
           [] OTHER -> outcome

\* the ways caget_one, caput_one and connect_one end for PV pv: the value (or
\* ca_nothing(pv) of a put or a connect), ca_nothing raised by ca_timeout or
\* by the event handler, an exception of cadef, any other exception
RawOutcomes(pv) ==
    {Returned(ca_value(pv)), Returned(ca_nothing(pv, "ECA_NORMAL")),
     Raised(ca_nothing(pv, "ECA_TIMEOUT")), Raised(ca_nothing(pv, "ECA_DISCONN")),
     Raised(CAException("ECA_TIMEOUT")), Raised(Disconnected), Raised(TypeError)}

\* ---- caget(pv, throw=...) with one PV name: throw_wrapper(caget_one) runs
\* in the caller, and ends as raw says ----
caget(t, pv, throw, raw) ==
    /\ Running(t)
    /\ \E o \in {maybe_throw(throw, pv, raw)} :
         TaskStep([Return(Cur, t, IF o.is = "ok" THEN "caget" ELSE "caget raise",
                          o.value)
                      EXCEPT !.last.aux = pv, !.last.events = {raw},
                             !.last.via = IF throw THEN "throw" ELSE "no throw"])

\* ---- caget_array: the list comprehension, one Spawn(caget_one, pv,
\* raise_on_wait = True, **kargs) per PV, in the order of the list ----
RECURSIVE caget_array_Spawn(_, _)
caget_array_Spawn(S, n) ==
    IF n = 0
    THEN S
    ELSE LET u == CHOOSE u \in Tasks :
                    /\ S.pc[u] = "unborn"
                    /\ \A v \in 1 .. (u - 1) : S.pc[v] # "unborn"
         IN  caget_array_Spawn(
                 [Spawn_init(S, u, TRUE) EXCEPT !.ca.array.tasks = Append(@, u),
                                                !.ca.array.raw = Append(@, NoResult)],
                 n - 1)

\* a faulty variant: nothing is noted for a task that has not finished
Spawn_AbortWait_no_credit(S, u) ==
    IF S.result[u].is = "empty"
    THEN S
    ELSE [S EXCEPT !.result[u] = Deleted]

\* ---- Spawn.AbortWait ----
Spawn_AbortWait(S, u) ==
    IF S.result[u].is = "empty"
    THEN [S EXCEPT !.abort[SpawnEvent(u)] = @ + 1]
    ELSE [S EXCEPT !.result[u] = Deleted]

\* ---- a call of AbortWait on the Spawn of task u; the test of a result
\* that was deleted raises AttributeError ----
AbortWait(t, u) ==
    /\ Running(t)
    /\ u # Main
    /\ u # t
    /\ pc[u] # "unborn"
    /\ wait_abort[SpawnEvent(u)] < MaxAborts
    /\ TaskStep([IF sp_result[u].is = "deleted"
                 THEN Return(Cur, t, "AttributeError", 0)
                 ELSE Return(Spawn_AbortWait(Cur, u), t, "Spawn.AbortWait", 0)
                    EXCEPT !.last.aux = u])

\* ---- WaitForAll: the finally clause, AbortWait on event_list[n+1:] ----
RECURSIVE WaitForAll_finally(_, _)
WaitForAll_finally(S, n) ==
    IF n >= Len(S.ca.array.tasks)
    THEN S
    ELSE WaitForAll_finally(Spawn_AbortWait(S, S.ca.array.tasks[n + 1]), n + 1)

\* ---- WaitForAll from the top of its for loop: result.append(event.Wait()),
\* with Spawn.Wait up to its suspension; an exception kept by a Spawn is
\* raised through the finally clause ----
RECURSIVE WaitForAll_loop(_, _)
WaitForAll_loop(S, t) ==
    LET a == S.ca.array
        n == Len(a.result)
        u == a.tasks[n + 1]
    IN  IF n = Len(a.tasks)
        THEN [Return(S, t, "WaitForAll", 0) EXCEPT !.last.aux = n]
        ELSE CASE S.result[u].is = "empty" ->
                    Scheduler_wait_until(S, t, "WaitForAll", a.deadline,
                                         SpawnEvent(u), NoTask)
               [] S.result[u].is = "ok" ->
                    WaitForAll_loop(
                        [S EXCEPT !.ca.array.result = Append(@, S.result[u].value)], t)
               [] S.result[u].is = "exc" ->
                    [Return(WaitForAll_finally([S EXCEPT !.result[u] = Deleted], n + 1),
                            t, "WaitForAll raise", S.result[u].value)
                        EXCEPT !.last.aux = n, !.ca.array.failed = n + 1]
               [] OTHER ->
                    [Return(WaitForAll_finally(S, n + 1), t, "AttributeError", 0)
                        EXCEPT !.last.aux = n, !.ca.array.failed = n + 1]

\* a faulty variant: Timedout is raised without the finally clause
WaitForAll_resume_no_abort(S, t, reason) ==
    IF reason = WAKEUP_TIMEOUT
    THEN [Return(S, t, "WaitForAll Timedout", 0)
            EXCEPT !.last.aux = Len(S.ca.array.result),
                   !.ca.array.failed = Len(S.ca.array.result) + 1]
    ELSE WaitForAll_loop(S, t)

\* ---- EventBase._WaitUntil returns into Spawn.Wait inside the for loop, or
\* raises Timedout through the finally clause ----
WaitForAll_resume(S, t, reason) ==
    IF reason = WAKEUP_TIMEOUT
    THEN [Return(WaitForAll_finally(S, Len(S.ca.array.result) + 1),
                 t, "WaitForAll Timedout", 0)
            EXCEPT !.last.aux = Len(S.ca.array.result),
                   !.ca.array.failed = Len(S.ca.array.result) + 1]
    ELSE WaitForAll_loop(S, t)

\* ---- WaitForAll(event_list, timeout) on the Spawn objects of tasks:
\* timeout = AbsTimeout(timeout), then the for loop ----
WaitForAll(t, tasks, timeout) ==
    /\ Running(t)
    /\ ca.array.caller = NoTask
    /\ \A i \in 1 .. Len(tasks) : pc[tasks[i]] # "unborn"
    /\ TaskStep(WaitForAll_loop(
                    [Cur EXCEPT !.ca.array =
                        [NoArray EXCEPT !.caller = t,
                                        !.tasks = tasks,
                                        !.raw = [i \in 1 .. Len(tasks) |-> NoResult],
                                        !.deadline = GetDeadline(timeout, now)]],
                    t))

\* ---- caget(pvs, throw=...) with a list of PVs: caget_array ----
caget_array(t, pvs, throw) ==
    /\ Running(t)
    /\ ca.array.caller = NoTask
    /\ Cardinality({u \in Tasks : pc[u] = "unborn"}) >= Len(pvs)
    /\ TaskStep(WaitForAll_loop(
                    caget_array_Spawn(
                        [Cur EXCEPT !.ca.array = [NoArray EXCEPT !.caller = t,
                                                                 !.throw = throw,
                                                                 !.pvs = pvs]],
                        Len(pvs)),
                    t))

\* the PV of the caget_one that task t runs for caget_array
ArrayIndex(t) == CHOOSE i \in 1 .. Len(ca.array.tasks) : ca.array.tasks[i] = t

\* ---- throw_wrapper(caget_one) in a task of caget_array ends as raw says,
\* and Spawn.__run stores what the wrapper returned or raised ----
caget_one_ends(t, raw) ==
    /\ Running(t)
    /\ \E i \in 1 .. Len(ca.array.tasks) : ca.array.tasks[i] = t
    /\ raw \in RawOutcomes(ca.array.pvs[ArrayIndex(t)])
    /\ TaskStep(Spawn_run([Cur EXCEPT !.ca.array.raw[ArrayIndex(t)] = raw], t,
                           maybe_throw(ca.array.throw,
                                       ca.array.pvs[ArrayIndex(t)], raw)))

\* ---- the for loop of __tick: _coroutine.switch(task, reason), and the
\* resumed task's code up to its next user-level step or suspension ----
Resume(S, t, reason) ==
    CASE S.pc[t] = "new" ->
            IF IsHelper(S, t)
            THEN Subscription_wait_for_channel(
                     S, t, HelperOf(S, t),
                     GetDeadline(S.ca.subs[HelperOf(S, t)].connect_timeout, S.time))
            ELSE IF t = S.ca.flusher
                 THEN FlushIo_dispatch_flush_io(S, t)
                 ELSE Return(S, t, "start", 0)
      [] S.pc[t] = "Pulse.Wait" -> Subscription_resume(S, t, reason)
      [] S.pc[t] = "FlushIo.Wait" -> FlushIo_dispatch_flush_io(S, t)
      [] S.pc[t] = "Channel.Wait" -> Channel_Wait_resume(S, t, reason)
      [] S.pc[t] = "WaitForAll" -> WaitForAll_resume(S, t, reason)
      [] S.pc[t] = "ca_timeout" -> ca_timeout_resume(S, t, reason)
      [] S.pc[t] = "Sleep" -> Return(S, t, "Sleep", 0)
      [] S.pc[t] = "Yield" ->
            Return([S EXCEPT !.pending[t] = {},
                             !.last.aux = Cardinality(S.pending[t])],
                   t, "Yield", S.locals[t].nready)
      [] S.pc[t] = "poll_list" ->
            Return(S, t, "poll_list",
                   Cardinality(S.wk[S.locals[t].w].poller.ready_list["fd"]))
      [] S.pc[t] = "Event.Wait" -> Event_Wait_resume(S, t, reason, "Event.Wait")
      [] S.pc[t] = "EventQueue.Wait" -> EventQueue_Wait_resume(S, t, reason)
      [] S.pc[t] = "RLock.acquire" -> RLock_acquire_resume(S, t, reason)
      [] S.pc[t] = "Spawn.Wait" -> Spawn_Wait_resume(S, t, reason)
      [] S.pc[t] = "ThreadedEventQueue.Wait" -> ThreadedEventQueue_Wait_resume(S, t)
      [] S.pc[t] = "Timer.Wait" -> Timer_resume(S, t, reason)

\* a faulty variant: the for loop takes the newest entry first
TickNext_last(tick) == Len(tick)

\* the index in the local ready_queue of the entry the for loop takes next
TickNext(tick) == 1

\* task u is switched to: it has run, for those that wait for it to (observation)
Ran(S, u) == [S EXCEPT !.pending = [x \in Tasks |-> @[x] \ {u}]]

Scheduler_switch(S) ==
    LET index == TickNext(S.tick)
        entry == S.tick[index]
        S1 == [S EXCEPT !.tick = SubSeq(@, 1, index - 1)
                                    \o SubSeq(@, index + 1, Len(@)),
                        !.last.task = entry.task,
                        !.last.via = "resume"]
    IN  Resume(Ran(S1, entry.task), entry.task, entry.reason)

Scheduler_dispatch ==
    /\ current = Scheduler
    /\ sched_pc = "dispatch"
    /\ tick_queue # <<>>
    /\ Commit(Scheduler_switch(Cur))
    /\ UNCHANGED <<now, sched_pc, poll_until>>

\* ---- _Scheduler.__schedule_loop after __tick: the delay, and the entry to
\* the poll ----
\* a faulty variant: the yield queue is not looked at
Scheduler_delay_ignores_yield(S, time) ==
    IF S.ready # <<>>
    THEN 0
    ELSE IF S.tq.entries # <<>>
         THEN LET d == S.tq.entries[1].timeout - time
              IN  IF d > MinDelay THEN d ELSE MinDelay
         ELSE NoDeadline

Scheduler_delay(S, time) ==
    IF S.ready # <<>> \/ S.wq[YieldQueue].waiters # <<>>
    THEN 0
    ELSE IF S.tq.entries # <<>>
         THEN LET d == S.tq.entries[1].timeout - time
              IN  IF d > MinDelay THEN d ELSE MinDelay
         ELSE NoDeadline

\* ---- coselect._compute_poll_list: the poll list and the new poll queue ----
compute_poll_list(S) ==
    LET active(f) == SelectSeq(S.pq[f], LAMBDA w : ~Wakeup_woken(S, w))
    IN  [poll_list |-> [f \in {g \in FDs : active(g) # <<>>} |->
                            UNION {S.wk[w].poller.events[f] : w \in Range(active(f))}],
         poll_queue |-> [f \in FDs |-> active(f)]]

\* ---- _Scheduler.__poll_suspend up to the blocking poll ----
Scheduler_poll_suspend ==
    /\ current = Scheduler
    /\ sched_pc = "dispatch"
    /\ tick_queue = <<>>
    /\ poll_until' = GetDeadline(Scheduler_delay(Cur, now), now)
    /\ sched_pc' = "poll"
    /\ Commit([Cur EXCEPT !.pq = compute_poll_list(Cur).poll_queue])
    /\ UNCHANGED now

\* a faulty variant: the events of POLLEXTRA are consumed like the others
Poller_notify_wakeup_consumes_extra(S, w, file, events) ==
    LET evs == events \cap (S.wk[w].poller.events[file] \cup POLLEXTRA)
    IN  IF evs # {}
        THEN [S |-> Wakeup_wakeup(
                        [S EXCEPT !.wk[w].poller.ready_list[file] = @ \cup evs],
                        w, WAKEUP_NORMAL).S,
              consumed |-> evs]
        ELSE [S |-> S, consumed |-> {}]

\* ---- _Poller.notify_wakeup: the new state and the events consumed ----
Poller_notify_wakeup(S, w, file, events) ==
    LET evs == events \cap (S.wk[w].poller.events[file] \cup POLLEXTRA)
    IN  IF evs # {}
        THEN [S |-> Wakeup_wakeup(
                        [S EXCEPT !.wk[w].poller.ready_list[file] = @ \cup evs],
                        w, WAKEUP_NORMAL).S,
              consumed |-> evs \ POLLEXTRA]
        ELSE [S |-> S, consumed |-> {}]

\* ---- _Scheduler.__wakeup_poll, for one (file, events) of the poll result ----
RECURSIVE WakeupPollLoop(_, _, _, _)
WakeupPollLoop(S, pollers, file, events) ==
    IF pollers = <<>>
    THEN S
    ELSE LET r == Poller_notify_wakeup(S, Head(pollers), file, events)
         IN  WakeupPollLoop(r.S, Tail(pollers), file, events \ r.consumed)

Scheduler_wakeup_poll_do(S, file, events) ==
    WakeupPollLoop([S EXCEPT !.last.events = events], S.pq[file], file, events)

\* the poll returns with nothing: its delay has run out
Scheduler_poll_timeout ==
    /\ current = Scheduler
    /\ sched_pc = "poll"
    /\ poll_until # NoDeadline
    /\ now >= poll_until \/ now = MaxTime
    /\ sched_pc' = "tick"
    /\ poll_until' = NoDeadline
    /\ refused' = FALSE
    /\ last' = NoLast
    /\ UNCHANGED <<now, heap_vars>>

\* the poll returns events of a descriptor on its poll list
Scheduler_wakeup_poll(file, events) ==
    /\ current = Scheduler
    /\ sched_pc = "poll"
    /\ poll_queue[file] # <<>>
    /\ events # {}
    /\ events \subseteq
          UNION {wk[w].poller.events[file] : w \in Range(poll_queue[file])}
            \cup POLLEXTRA
    /\ Commit(Scheduler_wakeup_poll_do(Cur, file, events))
    /\ sched_pc' = "tick"
    /\ poll_until' = NoDeadline
    /\ UNCHANGED now

\* ---- _Scheduler.__scheduler: the schedule loop raised (an interrupt during
\* the poll); the main task is taken off the ready queue and resumed with the
\* exception, which wait_until turns into wakeup.wakeup(result) and a raise ----
\* a faulty variant: the main task's entry is left on the ready queue
RemoveMain_keeps(ready) == ready

RemoveMain(ready) ==
    IF \E i \in 1 .. Len(ready) : ready[i].task = Main
    THEN LET index == CHOOSE i \in 1 .. Len(ready) :
                        /\ ready[i].task = Main
                        /\ \A j \in 1 .. (i - 1) : ready[j].task # Main
         IN  SubSeq(ready, 1, index - 1) \o SubSeq(ready, index + 1, Len(ready))
    ELSE ready

Scheduler_raise(S) ==
    LET S1 == [S EXCEPT !.ready = RemoveMain(@), !.last.via = "raise"]
        S2 == Wakeup_wakeup(S1, S1.locals[Main].w, WAKEUP_EXCEPTION).S
    IN  Return(Ran([S2 EXCEPT !.pending[Main] = {}], Main), Main, "exception", 0)

Scheduler_exception ==
    /\ current = Scheduler
    /\ sched_pc = "poll"
    /\ Commit(Scheduler_raise(Cur))
    /\ sched_pc' = "tick"
    /\ poll_until' = NoDeadline
    /\ UNCHANGED now

\* ---- _Scheduler.__scheduler: the schedule loop raised inside __tick (an
\* interrupt taken by the scheduler's coroutine, or an exception that leaves
\* Spawn.__run after its try statement).  The frame of __tick is unwound and
\* with it the local ready_queue; __ready_queue is the list __tick left ----
Scheduler_exception_tick ==
    /\ current = Scheduler
    /\ sched_pc \in {"tick", "dispatch"}
    /\ Commit(Scheduler_raise([Cur EXCEPT !.tick = <<>>]))
    /\ sched_pc' = "tick"
    /\ UNCHANGED <<now, poll_until>>

\* ---- the scheduler's poll while the task of callback_events waits for
\* self.wait: it returns POLLIN as soon as the pipe holds a byte, and runs
\* into its timeout only if it does not ----
PipeReadable == callback.pipe > 0 /\ poll_queue["fd"] # <<>>

Scheduler_poll_pipe ==
    /\ PipeReadable
    /\ Scheduler_wakeup_poll("fd", {"POLLIN"})

Scheduler_poll_idle ==
    /\ ~PipeReadable
    /\ Scheduler_poll_timeout

\* ---- the scheduler's poll while coroutines wait for wait_descriptor of the
\* ThreadedEventQueue ----
QueueReadable == teq.pipe > 0 /\ poll_queue["fd"] # <<>>

Scheduler_poll_queue ==
    /\ QueueReadable
    /\ Scheduler_wakeup_poll("fd", {"POLLIN"})

Scheduler_poll_quiet ==
    /\ ~QueueReadable
    /\ Scheduler_poll_timeout

\* ------------------------------------------------------------------------
\* Calls of the scheduler's primitives from another OS thread.
\* The thread the module was imported in is the scheduler's thread.
scheduler_thread_id == 0

\* the call op made in thread ident ended in _validate_thread's AssertionError
Rejected(S, op, ident) ==
    [S EXCEPT !.last.op = op, !.last.via = "rejected", !.last.aux = ident]

\* the call op made in thread ident returned val, or raised what op names
ThreadReturn(S, op, ident, val) ==
    [S EXCEPT !.last.op = op, !.last.via = "thread", !.last.aux = ident,
              !.last.val = val]

\* ---- _validate_thread in a call op made in thread ident: the assert passes
\* and the call goes on from S, or it raises ----
validate_thread(S, op, ident) ==
    IF scheduler_thread_id = ident THEN S ELSE Rejected(S, op, ident)

\* ---- EventBase._WaitUntil and EventBase._Wakeup in such a call: both
\* begin with _validate_thread ----
EventBase_WaitUntil_thread(S, op, th) == validate_thread(S, op, th)

EventBase_Wakeup_thread(S, op, th) == validate_thread(S, op, th)

\* ---- Event.Wait: the value is tested first, and _WaitUntil is called only
\* when there is none ----
Event_Wait_thread(S, th, e) ==
    IF S.value[e] = <<>>
    THEN EventBase_WaitUntil_thread(S, "Event.Wait", th)
    ELSE ThreadReturn(Event_Reset(S, e), "Event.Wait", th, S.value[e][2])

\* ---- Event.Signal: the value is stored, then _Wakeup is called ----
Event_Signal_thread(S, th, e, v) ==
    EventBase_Wakeup_thread([S EXCEPT !.value[e] = <<TRUE, v>>],
                            "Event.Signal", th)

\* ---- Pulse.Wait and Pulse.Signal: _WaitUntil and _Wakeup, nothing else ----
Pulse_Wait_thread(S, th) == EventBase_WaitUntil_thread(S, "Pulse.Wait", th)

Pulse_Signal_thread(S, th) == EventBase_Wakeup_thread(S, "Pulse.Signal", th)

\* ---- EventQueue.Wait: the queue is tested first ----
EventQueue_Wait_thread(S, th) ==
    IF S.queue = <<>> /\ ~S.closed
    THEN EventBase_WaitUntil_thread(S, "EventQueue.Wait", th)
    ELSE IF S.queue # <<>>
         THEN ThreadReturn([S EXCEPT !.queue = Tail(@),
                                     !.received = Append(@, Head(S.queue))],
                           "EventQueue.Wait", th, Head(S.queue))
         ELSE ThreadReturn(S, "StopIteration", th, 0)

\* ---- EventQueue.Signal: the assert on __closed, the test of the length,
\* the append, then _Wakeup ----
EventQueue_Signal_thread(S, th, value) ==
    IF S.closed
    THEN ThreadReturn(S, "EventQueue.Signal AssertionError", th, value)
    ELSE IF Len(S.queue) < MaxLength
         THEN EventBase_Wakeup_thread([S EXCEPT !.queue = Append(@, value)],
                                      "EventQueue.Signal", th)
         ELSE ThreadReturn(S, "EventQueue.Signal False", th, value)

\* ---- Spawn.__init__: the fields of the new object are set, then
\* _validate_thread is called; the object is dropped when it raises ----
Spawn_thread(S, th) == validate_thread(S, "Spawn", th)

\* ---- SleepUntil, Yield and coselect.poll_list begin with _validate_thread ----
SleepUntil_thread(S, th) == validate_thread(S, "Sleep", th)

Yield_thread(S, th) == validate_thread(S, "Yield", th)

poll_list_thread(S, th) == validate_thread(S, "poll_list", th)

\* ---- an OS thread makes one of these calls; the scheduler's thread is
\* wherever it is ----
ThreadCalls(S, th) ==
    {Spawn_thread(S, th), SleepUntil_thread(S, th), Yield_thread(S, th),
     poll_list_thread(S, th), Pulse_Wait_thread(S, th),
     Pulse_Signal_thread(S, th)}

ThreadCall(th) ==
    \E S \in ThreadCalls(Cur, th) : TaskStep(S)

Event_Wait_from(th, e) == TaskStep(Event_Wait_thread(Cur, th, e))

Event_Signal_from(th, e, v) == TaskStep(Event_Signal_thread(Cur, th, e, v))

EventQueue_Wait_from(th) == TaskStep(EventQueue_Wait_thread(Cur, th))

EventQueue_Signal_from(th) ==
    /\ eq_signalled < MaxSignals
    /\ \E value \in {eq_signalled + 1} :
        TaskStep([EventQueue_Signal_thread(Cur, th, value) EXCEPT
                    !.signalled = value])

Timeouts == Delays \cup {NoDeadline}
PollResults == {{"POLLIN"}, {"POLLHUP"}}
Values == {1}

SchedulerNext ==
    \/ Tock
    \/ Scheduler_tick
    \/ Scheduler_dispatch
    \/ Scheduler_poll_suspend
    \/ Scheduler_poll_timeout

Next ==
    \/ SchedulerNext
    \/ Scheduler_exception
    \/ \E t \in Tasks, u \in Tasks : Spawn(t, u, FALSE)
    \/ \E t \in Tasks : TaskReturn(t, Returned(0))
    \/ \E t \in Tasks, d \in Delays : Sleep(t, d)
    \/ \E t \in Tasks : Yield(t, 0)
    \/ \E t \in Tasks, d \in {NoDeadline, 0} : poll_list(t, "fd", {"POLLIN"}, d)
    \/ \E events \in PollResults : Scheduler_wakeup_poll("fd", events)
    \/ \E t \in Tasks, d \in {NoDeadline, 0} : Event_Wait(t, "ev", d)
    \/ \E t \in Tasks, v \in Values : Event_Signal(t, "ev", v)

Spec == Init /\ [][Next]_vars

NextSleep ==
    \/ SchedulerNext
    \/ Scheduler_exception
    \/ \E t \in Tasks, u \in Tasks : Spawn(t, u, FALSE)
    \/ \E t \in Tasks : TaskReturn(t, Returned(0))
    \/ \E t \in Tasks, d \in Delays : Sleep(t, d)
    \/ \E t \in Tasks, d \in {NoDeadline, 0} : Yield(t, d)

SpecSleep == Init /\ [][NextSleep]_vars

NextEvent ==
    \/ SchedulerNext
    \/ \E t \in Tasks, u \in Tasks : Spawn(t, u, FALSE)
    \/ \E t \in Tasks : TaskReturn(t, Returned(0))
    \/ \E t \in Tasks, d \in Timeouts : Event_Wait(t, "ev", d)
    \/ \E t \in Tasks, v \in Values : Event_Signal(t, "ev", v)

SpecEvent == Init /\ [][NextEvent]_vars

NextQueue ==
    \/ SchedulerNext
    \/ \E t \in Tasks, u \in Tasks : Spawn(t, u, FALSE)
    \/ \E t \in Tasks : TaskReturn(t, Returned(0))
    \/ \E t \in Tasks, d \in Timeouts : EventQueue_Wait(t, d)
    \/ \E t \in Tasks : EventQueue_Signal(t)
    \/ \E t \in Tasks : EventQueue_close(t)

SpecQueue == Init /\ [][NextQueue]_vars

\* ---- an EventQueue with every one of its operations ----
NextQueueAbort ==
    \/ SchedulerNext
    \/ \E t \in Tasks, u \in Tasks : Spawn(t, u, FALSE)
    \/ \E t \in Tasks, d \in {NoDeadline, 0} : EventQueue_Wait(t, d)
    \/ \E t \in Tasks : EventQueue_Signal(t)
    \/ \E t \in Tasks : EventQueue_AbortWait(t)
    \/ \E t \in Tasks : EventQueue_Reset(t)
    \/ \E t \in Tasks : EventQueue_close(t)

SpecQueueAbort == Init /\ [][NextQueueAbort]_vars

Outcomes == {Returned(v) : v \in Values} \cup {Raised(v) : v \in Values}

NextSpawn ==
    \/ SchedulerNext
    \/ \E t \in Tasks, u \in Tasks, r \in BOOLEAN : Spawn(t, u, r)
    \/ \E t \in Tasks, o \in Outcomes : TaskReturn(t, o)
    \/ \E t \in Tasks, u \in Tasks, d \in Timeouts : Spawn_Wait(t, u, d)

SpecSpawn == Init /\ [][NextSpawn]_vars

\* ---- spawned tasks that are waited for or given up with AbortWait ----
NextAbort ==
    \/ SchedulerNext
    \/ \E t \in Tasks, u \in Tasks, r \in BOOLEAN : Spawn(t, u, r)
    \/ \E t \in Tasks, o \in Outcomes : TaskReturn(t, o)
    \/ \E t \in Tasks, u \in Tasks, d \in {NoDeadline, 0} : Spawn_Wait(t, u, d)
    \/ \E t \in Tasks, u \in Tasks : AbortWait(t, u)

SpecAbort == Init /\ [][NextAbort]_vars

\* ---- WaitForAll on spawned tasks: the main task spawns tasks with
\* raise_on_wait and waits for a list of them, with or without a timeout;
\* each ends with a value or an exception at some time ----
TaskLists ==
    {<<u>> : u \in Tasks \ {Main}}
        \cup {l \in {<<u, v>> : u, v \in Tasks \ {Main}} : l[1] # l[2]}

NextWaitAll ==
    \/ SchedulerNext
    \/ \E u \in Tasks : Spawn(Main, u, TRUE)
    \/ \E t \in Tasks, o \in Outcomes : TaskReturn(t, o)
    \/ \E t \in Tasks : Yield(t, 0)
    \/ \E tasks \in TaskLists, d \in Timeouts : WaitForAll(Main, tasks, d)

SpecWaitAll == Init /\ [][NextWaitAll]_vars

\* the coroutines that run the program's code, not Timer.__timer
UserTasks == Tasks \ {timer.task}

NextTimer ==
    \/ SchedulerNext
    \/ \E t \in UserTasks, u \in Tasks : Spawn(t, u, FALSE)
    \/ \E t \in UserTasks : TaskReturn(t, Returned(0))
    \/ \E t \in UserTasks, u \in Tasks, d \in Timeouts, retrigger, reuse \in BOOLEAN :
            Timer(t, u, d, retrigger, reuse)
    \/ \E t \in Tasks : Timer_timer(t)
    \/ \E t \in UserTasks, d \in Delays : Sleep(t, d)
    \/ \E t \in UserTasks : Timer_cancel(t)
    \/ \E t \in UserTasks, d \in Timeouts : Timer_reset(t, d)

SpecTimer == Init /\ [][NextTimer]_vars

SchedulerCallbackNext ==
    \/ Scheduler_tick
    \/ Scheduler_dispatch
    \/ Scheduler_poll_suspend
    \/ Scheduler_poll_idle
    \/ Scheduler_poll_pipe

NextCallback ==
    \/ Tock
    \/ SchedulerCallbackNext
    \/ \E u \in Tasks : Callback_init(Main, u)
    \/ \E d \in Delays : Sleep(Main, d)
    \/ DispatcherNext
    \/ \E th \in Threads : Callback_call_append(th)
    \/ \E th \in Threads : ThreadNext(th)

NextResult ==
    \/ SchedulerCallbackNext
    \/ \E u \in Tasks : Callback_init(Main, u)
    \/ Yield(Main, 0)
    \/ DispatcherNext
    \/ \E th \in Threads : ThreadNext(th)
    \/ \E th \in Threads, spawn \in BOOLEAN, d \in {NoDeadline, 0} :
            CallbackResult(th, spawn, d)
    \/ \E th \in Threads : CallbackResult_return(th)
    \/ \E th \in Threads : CallbackResult_timeout(th)
    \/ \E t \in Tasks : CallbackResult_do_action(t)
    \/ \E t \in Tasks, o \in Outcomes : CallbackResult_action_ends(t, o)
    \/ \E o \in Outcomes : CallbackResult_direct(Main, o)

SpecResult == Init /\ [][NextResult]_vars

NextRaise ==
    \/ Scheduler_tick
    \/ Scheduler_dispatch
    \/ Scheduler_poll_suspend
    \/ Scheduler_poll_timeout
    \/ Scheduler_exception
    \/ Scheduler_exception_tick
    \/ \E u \in Tasks : Spawn(Main, u, FALSE)
    \/ \E t \in Tasks : Yield(t, 0)
    \/ \E t \in Tasks, d \in {NoDeadline, 0} : Event_Wait(t, "ev", d)
    \/ \E t \in Tasks, v \in Values : Event_Signal(t, "ev", v)

SpecRaise == Init /\ [][NextRaise]_vars

\* the event masks tasks poll with, and what a poll of the descriptor reports
PollMasks == {{"POLLIN"}, {"POLLOUT"}, {"POLLIN", "POLLOUT"}}
PollEvents == (SUBSET {"POLLIN", "POLLOUT", "POLLHUP"}) \ {{}}

NextPoll ==
    \/ Scheduler_tick
    \/ Scheduler_dispatch
    \/ Scheduler_poll_suspend
    \/ Scheduler_poll_timeout
    \/ \E u \in Tasks : Spawn(Main, u, FALSE)
    \/ \E t \in Tasks, events \in PollMasks, d \in {NoDeadline, 0} :
            poll_list(t, "fd", events, d)
    \/ \E events \in PollEvents : Scheduler_wakeup_poll("fd", events)

SpecPoll == Init /\ [][NextPoll]_vars

NextThread ==
    \/ Scheduler_tick
    \/ Scheduler_dispatch
    \/ Scheduler_poll_suspend
    \/ \E u \in Tasks : Spawn(Main, u, FALSE)
    \/ \E t \in Tasks : Event_Wait(t, "ev", NoDeadline)
    \/ \E t \in Tasks, v \in Values : Event_Signal(t, "ev", v)
    \/ \E t \in Tasks : EventQueue_Wait(t, NoDeadline)
    \/ \E t \in Tasks : EventQueue_Signal(t)
    \/ \E th \in Threads : ThreadCall(th)
    \/ \E th \in Threads : Event_Wait_from(th, "ev")
    \/ \E th \in Threads, v \in Values : Event_Signal_from(th, "ev", v)
    \/ \E th \in Threads : EventQueue_Wait_from(th)
    \/ \E th \in Threads : EventQueue_Signal_from(th)

SpecThread == Init /\ [][NextThread]_vars

\* ---- monitors: the main task creates them and then waits for good; the
\* library connects and disconnects the channel and delivers updates ----
NextMonitor ==
    \/ Scheduler_tick
    \/ Scheduler_dispatch
    \/ Scheduler_poll_suspend
    \/ Event_Wait(Main, "ev", NoDeadline)
    \/ \E s \in Subs, u \in Tasks, all_updates, notify_disconnect \in BOOLEAN :
            camonitor(Main, s, u, all_updates, notify_disconnect, NoDeadline)
    \/ \E connected \in BOOLEAN : on_ca_connect(connected)
    \/ \E s \in Subs, status \in {"ECA_NORMAL", "ECA_DISCONN"}, decoded \in BOOLEAN :
            on_event(s, status, decoded)
    \/ \E outcome \in {"ok", "raise"} : Monitor_callback_events(outcome)

SpecMonitor == Init /\ [][NextMonitor]_vars

\* ---- monitors that are closed: the main task creates them, yields, closes
\* them and purges the channel cache; every update decodes ----
NextClose ==
    \/ Scheduler_tick
    \/ Scheduler_dispatch
    \/ Scheduler_poll_suspend
    \/ Scheduler_poll_timeout
    \/ Yield(Main, 0)
    \/ \E s \in Subs, u \in Tasks, all_updates \in BOOLEAN :
            camonitor(Main, s, u, all_updates, FALSE, NoDeadline)
    \/ on_ca_connect(TRUE)
    \/ \E s \in Subs : on_event(s, "ECA_NORMAL", TRUE)
    \/ \E outcome \in {"ok", "raise"} : Monitor_callback_events(outcome)
    \/ \E s \in Subs : close(Main, s)
    \/ catools_atexit(Main)

SpecClose == Init /\ [][NextClose]_vars

\* ---- monitors of a channel that connects late: the main task creates
\* them with a connect_timeout of 0 and keeps yielding ----
NextConnect ==
    \/ Scheduler_tick
    \/ Scheduler_dispatch
    \/ Scheduler_poll_suspend
    \/ Scheduler_poll_timeout
    \/ Yield(Main, 0)
    \/ \E s \in Subs, u \in Tasks, all_updates, notify_disconnect \in BOOLEAN :
            camonitor(Main, s, u, all_updates, notify_disconnect, 0)
    \/ on_ca_connect(TRUE)
    \/ \E s \in Subs : on_event(s, "ECA_NORMAL", TRUE)
    \/ Monitor_callback_events("ok")

SpecConnect == Init /\ [][NextConnect]_vars

\* ---- monitors that are closed before they are open: the main task creates
\* them, yields and closes them, and the channel connects at some time ----
NextOpening ==
    \/ Scheduler_tick
    \/ Scheduler_dispatch
    \/ Scheduler_poll_suspend
    \/ Scheduler_poll_timeout
    \/ Yield(Main, 0)
    \/ \E s \in Subs, u \in Tasks, all_updates \in BOOLEAN :
            camonitor(Main, s, u, all_updates, FALSE, NoDeadline)
    \/ on_ca_connect(TRUE)
    \/ \E s \in Subs : close(Main, s)

SpecOpening == Init /\ [][NextOpening]_vars

\* ---- monitors whose creation may fail: the main task creates them, yields,
\* closes them and purges the channel cache; the channel connects at some
\* time ----
NextCreate ==
    \/ Scheduler_tick
    \/ Scheduler_dispatch
    \/ Scheduler_poll_suspend
    \/ Scheduler_poll_timeout
    \/ Yield(Main, 0)
    \/ \E s \in Subs, u \in Tasks,
          fails \in {"no", "type_to_dbr", "ca_create_subscription"} :
            camonitor_fails(Main, s, u, fails)
    \/ on_ca_connect(TRUE)
    \/ \E s \in Subs : on_event(s, "ECA_NORMAL", TRUE)
    \/ Monitor_callback_events("ok")
    \/ \E s \in Subs : close(Main, s)
    \/ catools_atexit(Main)

SpecCreate == Init /\ [][NextCreate]_vars

\* ---- gets, puts and monitors with the flusher task: catools is imported
\* (the flusher is spawned) before any of its functions is called; a get has
\* timeout 0, a put does not wait; the channel connects at some time ----
NextCaget ==
    \/ Scheduler_tick
    \/ Scheduler_dispatch
    \/ Scheduler_poll_suspend
    \/ Scheduler_poll_timeout
    \/ \E u \in Tasks : FlushIo_init(Main, u)
    \/ \E t, u \in Tasks : Spawn(t, u, FALSE)
    \/ \E t \in Tasks : Yield(t, 0)
    \/ \E t \in Tasks : ca.flusher # NoTask /\ caget_one(t, 0)
    \/ \E t \in Tasks : ca.flusher # NoTask /\ caput_one(t)
    \/ \E s \in Subs, u \in Tasks :
            ca.flusher # NoTask /\ camonitor(Main, s, u, FALSE, FALSE, NoDeadline)
    \/ \E s \in Subs : close(Main, s)
    \/ on_ca_connect(TRUE)

SpecCaget == Init /\ [][NextCaget]_vars

\* ---- gets and puts with a completion callback: the main task asks for a PV
\* before its channel is connected; once it is, each task makes one request,
\* which the library accepts or refuses and completes at some time or never;
\* a task whose request has returned yields ----
NextRequest ==
    \/ Scheduler_tick
    \/ Scheduler_dispatch
    \/ Scheduler_poll_suspend
    \/ Scheduler_poll_timeout
    \/ \E u \in Tasks : FlushIo_init(Main, u)
    \/ \E t, u \in Tasks : ca.flusher # NoTask /\ Spawn(t, u, FALSE)
    \/ \E t \in Tasks : Yield(t, 0)
    \/ ca.flusher # NoTask /\ caget_one(Main, 0)
    \/ on_ca_connect(TRUE)
    \/ \E t \in Tasks, timeout \in {0, NoDeadline},
          status \in {"ECA_NORMAL", "ECA_DISCONN"} :
            caget_one_connected(t, timeout, status)
    \/ \E t \in Tasks, wait \in BOOLEAN, status \in {"ECA_NORMAL", "ECA_DISCONN"} :
            caput_one_callback(t, wait, 0, status)
    \/ \E t \in Tasks, status \in {"ECA_NORMAL", "ECA_DISCONN"} :
            on_ca_completion(t, status)

SpecRequest == Init /\ [][NextRequest]_vars

\* ---- gets of one PV and of lists of PVs, with and without throw ----
PVs == 1 .. (NTasks - 1)
PVLists == {<<>>} \cup {<<p>> : p \in PVs} \cup {<<p, q>> : p, q \in PVs}

NextArray ==
    \/ Scheduler_tick
    \/ Scheduler_dispatch
    \/ Scheduler_poll_suspend
    \/ Scheduler_poll_timeout
    \/ \E pv \in PVs, throw \in BOOLEAN : \E raw \in RawOutcomes(pv) :
            caget(Main, pv, throw, raw)
    \/ \E pvs \in PVLists, throw \in BOOLEAN : caget_array(Main, pvs, throw)
    \/ \E t \in Tasks, pv \in PVs : \E raw \in RawOutcomes(pv) : caget_one_ends(t, raw)

SpecArray == Init /\ [][NextArray]_vars

NextThreaded ==
    \/ Tock
    \/ Scheduler_tick
    \/ Scheduler_dispatch
    \/ Scheduler_poll_suspend
    \/ Scheduler_poll_queue
    \/ Scheduler_poll_quiet
    \/ \E u \in Tasks : teq.co[Main] = "idle" /\ Spawn(Main, u, FALSE)
    \/ \E t \in Tasks : ThreadedEventQueue_Signal(t)
    \/ \E t \in Tasks, d \in {NoDeadline, 0} : ThreadedEventQueue_Wait(t, d)
    \/ \E t \in Tasks : ThreadedEventQueue_Wait_read_popleft(t)
    \/ \E th \in Threads : ThreadedEventQueue_Signal_append(th)
    \/ \E th \in Threads : ThreadedEventQueue_Signal_write(th)
    \/ \E th \in Threads, d \in {NoDeadline, 0} : ThreadedEventQueue_Wait_poll_block(th, d)
    \/ \E th \in Threads : ThreadedEventQueue_Wait_read(th)
    \/ \E th \in Threads : ThreadedEventQueue_Wait_popleft(th)

SpecThreaded == Init /\ [][NextThreaded]_vars

\* The scheduler thread and every OS thread keep running.  Each condition is
\* stated on the control position that the step in question moves.
\* The scheduler loop goes on: __tick, the switch to the next task of the
\* tick, the entry to the poll, and the return of the poll when the pipe is
\* readable or its timeout is over.
SchedulerRuns ==
    /\ current = Scheduler
    /\ \/ sched_pc = "tick" /\ sched_pc' = "dispatch" /\ current' = Scheduler
       \/ /\ sched_pc = "dispatch" /\ tick_queue # <<>>
          /\ sched_pc' = sched_pc /\ current' \in Tasks
       \/ /\ sched_pc = "dispatch" /\ tick_queue = <<>>
          /\ sched_pc' = "poll" /\ current' = Scheduler
       \/ /\ sched_pc = "poll"
          /\ \/ PipeReadable
             \/ poll_until # NoDeadline /\ (now >= poll_until \/ now = MaxTime)
          /\ sched_pc' = "tick" /\ current' = Scheduler

\* the task of callback_events, when it is the running task, takes its next step
DispatcherRuns ==
    /\ callback.task # NoTask
    /\ Running(callback.task)
    /\ \/ cb_pc = "waiting" /\ cb_pc' = "values" /\ cb_seen' = cb_seen
       \/ cb_pc = "values" /\ cb_pc' \in {"read", "drain"} /\ cb_seen' = cb_seen
       \/ cb_pc = "read" /\ cb_pc' = "drain" /\ cb_seen' = cb_seen
       \/ /\ cb_pc = "drain" /\ callback.values = <<>>
          /\ cb_pc' = "waiting" /\ cb_seen' = cb_seen
       \/ /\ cb_pc = "drain" /\ callback.values # <<>>
          /\ cb_pc' = cb_pc
          /\ cb_seen' = [cb_seen EXCEPT !.ran = Append(@, Head(callback.values))]

\* the main task gives up control
MainSuspends == Running(Main) /\ current' = Scheduler

\* thread th, once it has begun a call of Callback, completes it
ThreadRuns(th) ==
    /\ threads[th] # "idle"
    /\ threads' = [threads EXCEPT ![th] =
            CASE @ = "test" -> IF callback.waiting THEN "clear" ELSE "idle"
              [] @ = "clear" -> "write"
              [] @ = "write" -> "idle"]

SpecCallback ==
    /\ Init
    /\ [][NextCallback]_vars
    /\ WF_<<sched_pc, current>>(SchedulerRuns)
    /\ WF_<<cb_pc, cb_seen>>(DispatcherRuns)
    /\ WF_current(MainSuspends)
    /\ \A th \in Threads : WF_threads(ThreadRuns(th))

NextLock ==
    \/ SchedulerNext
    \/ Scheduler_exception
    \/ \E t \in Tasks, u \in Tasks : Spawn(t, u, FALSE)
    \/ \E t \in Tasks : TaskReturn(t, Returned(0))
    \/ \E t \in Tasks : Yield(t, 0)
    \/ \E t \in Tasks, d \in Timeouts : RLock_acquire(t, d)
    \/ \E t \in Tasks : RLock_release(t)

SpecLock == Init /\ [][NextLock]_vars

\* ------------------------------------------------------------------------
\* Properties.

\* every entry waiting to be dispatched: the rest of the tick's local list,
\* then _Scheduler.__ready_queue
Entries == tick_queue \o ready_queue

OnReady(t) == \E i \in 1 .. Len(Entries) : Entries[i].task = t

\* the _Wakeup of the suspension task t is in has not fired
Armed(t) == pc[t] \in Blocked /\ wk[locals[t].w].task # NoTask

\* w is still physically on a wait queue, the timer queue or the poll registry
Queued(w) ==
    \/ \E q \in QueueNames : w \in Range(wait_queues[q].waiters)
    \/ \E i \in 1 .. Len(timer_queue.entries) : timer_queue.entries[i].wakeup = w
    \/ \E f \in FDs : w \in Range(poll_queue[f])

\* the scheduler is about to switch to the next task of its tick
DispatchStep == current = Scheduler /\ sched_pc = "dispatch" /\ tick_queue # <<>>

\* the scheduler is about to start a tick
TickStep == current = Scheduler /\ sched_pc = "tick"

\* C1: no task is on the ready queue more than once, and every _Wakeup of a
\* task that is running or on the ready queue is spent.
C1_ReadyOnceWakeupSpent ==
    /\ \A i, j \in 1 .. Len(Entries) :
            i # j => Entries[i].task # Entries[j].task
    /\ \A t \in Tasks :
            (current = t \/ OnReady(t)) =>
                \A w \in 1 .. MaxWakeups : wk[w].owner = t => wk[w].task = NoTask

\* a task is on the ready queue while its spent _Wakeup is still on a queue
C1_Witness ==
    \E i \in 1 .. Len(Entries) :
        /\ Entries[i].w # NoTask
        /\ wk[Entries[i].w].task = NoTask
        /\ Queued(Entries[i].w)

\* C2: wakeup() returns True at most once for each _Wakeup, whatever the
\* reasons and the callers; no _Wakeup has put two entries on the ready queue.
C2_WakeupFiresOnce ==
    /\ ~fired_twice
    /\ \A w \in 1 .. MaxWakeups :
        /\ wk[w].fired <= 1
        /\ Cardinality({i \in 1 .. Len(Entries) : Entries[i].w = w}) <= 1

\* wakeup() has just been called on a spent _Wakeup, and returned False
C2_Witness ==
    /\ refused
    /\ \E w \in 1 .. MaxWakeups : wk[w].fired = 1 /\ Queued(w)

\* C3 as stated: once the deadline of a task blocked in Event.Wait has passed
\* with no Signal yet, the task gets Timedout, so no Signal wakes it any more.
C3_DeadlinePassedThenTimedout ==
    [][\A t \in Tasks :
          (/\ pc[t] = "Event.Wait"
           /\ Armed(t)
           /\ locals[t].until # NoDeadline
           /\ locals[t].until < now)
          => ~\E i \in 1 .. Len(ready_queue') :
                /\ ready_queue'[i].task = t
                /\ ready_queue'[i].reason = WAKEUP_NORMAL]_vars

\* C3: the timer of a task blocked in Event.Wait fires at the first tick of the
\* scheduler at or after the deadline, if no Signal has woken the task by
\* then; a task woken by its timer gets Timedout and leaves the value of the
\* event untouched, so a Signal issued after the timer fired stays set; each
\* wait is ended by one wakeup only; Timedout is never raised before the
\* deadline.
C3_TimerFiredThenTimedout ==
    /\ [](\A t \in Tasks :
            pc[t] = "Event.Wait" =>
                /\ Cardinality({i \in 1 .. Len(Entries) : Entries[i].task = t}) <= 1
                /\ wk[locals[t].w].fired <= 1
                /\ Armed(t) <=> ~OnReady(t))
    /\ [][/\ TickStep =>
                \A t \in Tasks :
                    (/\ pc[t] = "Event.Wait"
                     /\ Armed(t)
                     /\ locals[t].until # NoDeadline
                     /\ locals[t].until <= now)
                    => \E i \in 1 .. Len(tick_queue') :
                            /\ tick_queue'[i].task = t
                            /\ tick_queue'[i].reason = WAKEUP_TIMEOUT
          /\ DispatchStep =>
                \A i \in 1 .. Len(tick_queue) :
                    (/\ tick_queue[i].task = last'.task
                     /\ pc[tick_queue[i].task] = "Event.Wait"
                     /\ tick_queue[i].reason = WAKEUP_TIMEOUT)
                    => /\ last'.op = "Timedout"
                       /\ ev_value' = ev_value
          /\ last'.op = "Event.Signal" => ev_value'["ev"] = <<TRUE, last'.val>>
          /\ (last'.op = "Timedout" /\ pc[last'.task] = "Event.Wait") =>
                /\ locals[last'.task].until # NoDeadline
                /\ locals[last'.task].until <= now]_vars

\* a Signal has been issued in the tick in which the timer of a waiter fired,
\* before that waiter has run
C3_Witness ==
    /\ last.op = "Event.Signal"
    /\ ev_value["ev"] # <<>>
    /\ \E i \in 1 .. Len(tick_queue) :
        /\ pc[tick_queue[i].task] = "Event.Wait"
        /\ tick_queue[i].reason = WAKEUP_TIMEOUT

\* C4: when Yield returns, every task that was on the ready queue at the call
\* has run since.
C4_YieldRunsReadyFirst ==
    last.op = "Yield" => last.aux = 0

\* Yield has returned, and two tasks were ready when it was called
C4_Witness ==
    /\ last.op = "Yield"
    /\ last.val >= 2

\* C5: the task the scheduler switches to is the one made ready first among
\* those of the tick, however each was made ready.
C5_ResumedInWakeOrder ==
    [][DispatchStep =>
          \E i \in 1 .. Len(tick_queue) :
              /\ tick_queue[i].task = last'.task
              /\ \A j \in 1 .. Len(tick_queue) :
                    tick_queue[j].seq >= tick_queue[i].seq]_vars

\* a task has been resumed, and the same tick still holds a task woken by its
\* timer and one woken by a poll notification
C5_Witness ==
    /\ last.via = "resume"
    /\ \E i, j \in 1 .. Len(tick_queue) :
        /\ tick_queue[i].reason = WAKEUP_TIMEOUT
        /\ tick_queue[j].reason = WAKEUP_NORMAL
        /\ tick_queue[j].w # NoTask
        /\ wk[tick_queue[j].w].poller.ready_list["fd"] # {}

\* entry e was registered on the timer queue for an earlier deadline than
\* entry f, or for the same deadline and before it
TimerBefore(e, f) ==
    \/ wk[e.w].until < wk[f.w].until
    \/ wk[e.w].until = wk[f.w].until /\ e.w < f.w

\* C6: tasks woken by the timer queue are made ready, and resumed, in the
\* order of their deadlines and, for one deadline, in the order in which they
\* registered; none is made ready before its deadline.
C6_TimersInOrder ==
    /\ [](\A i \in 1 .. Len(Entries) :
            Entries[i].reason = WAKEUP_TIMEOUT =>
                /\ wk[Entries[i].w].until # NoDeadline
                /\ wk[Entries[i].w].until <= now
                /\ \A j \in 1 .. Len(Entries) :
                        (/\ Entries[j].reason = WAKEUP_TIMEOUT
                         /\ TimerBefore(Entries[i], Entries[j]))
                        => Entries[i].seq < Entries[j].seq)
    /\ [][DispatchStep =>
            \A i, j \in 1 .. Len(tick_queue) :
                (/\ tick_queue[i].task = last'.task
                 /\ tick_queue[i].reason = WAKEUP_TIMEOUT
                 /\ tick_queue[j].reason = WAKEUP_TIMEOUT)
                => ~TimerBefore(tick_queue[j], tick_queue[i])]_vars

\* three timers have expired in one tick, two of them for the same deadline
C6_Witness ==
    \E i, j, k \in 1 .. Len(tick_queue) :
        /\ i # j
        /\ tick_queue[i].reason = WAKEUP_TIMEOUT
        /\ tick_queue[j].reason = WAKEUP_TIMEOUT
        /\ tick_queue[k].reason = WAKEUP_TIMEOUT
        /\ wk[tick_queue[i].w].until = wk[tick_queue[j].w].until
        /\ wk[tick_queue[k].w].until # wk[tick_queue[i].w].until

\* the tasks blocked in Event.Wait on "ev" whose _Wakeup has not fired
ArmedWaiters == {t \in Tasks : pc[t] = "Event.Wait" /\ Armed(t)}

C8_QueueDeliversAccepted ==
    /\ eq_accepted = eq_received \o eq_queue
    /\ last.op = "EventQueue.Wait" =>
            /\ eq_received # <<>>
            /\ last.val = eq_received[Len(eq_received)]

\* two blocked waiters have been served, and a Signal was refused meanwhile
C8_Witness ==
    /\ last.op = "EventQueue.Wait"
    /\ last.via = "resume"
    /\ Len(eq_received) >= 2
    /\ Len(eq_accepted) < eq_signalled

\* C9: once the queue is closed no task stays blocked in Wait; Wait hands out
\* the queued values from the head and raises StopIteration only when none is
\* left; Signal raises and adds nothing.
C9_CloseWakesAllAndDrains ==
    /\ [](/\ eq_closed =>
                \A t \in Tasks : pc[t] = "EventQueue.Wait" => OnReady(t)
          /\ last.op = "StopIteration" => (eq_closed /\ eq_queue = <<>>))
    /\ [][eq_closed =>
            /\ eq_closed'
            /\ eq_accepted' = eq_accepted
            /\ \/ eq_queue' = eq_queue
               \/ /\ eq_queue # <<>>
                  /\ eq_queue' = Tail(eq_queue)
                  /\ last'.op = "EventQueue.Wait"
                  /\ last'.val = Head(eq_queue)
            /\ last'.op = "StopIteration" => eq_queue = <<>>
            /\ eq_signalled' # eq_signalled =>
                    last'.op = "EventQueue.Signal AssertionError"]_vars

\* a waiter woken by close has found the queue drained and got StopIteration
C9_Witness ==
    /\ eq_closed
    /\ last.op = "StopIteration"
    /\ last.via = "resume"
    /\ eq_received # <<>>

\* C10: at most one task holds the lock, it is the owner, and a task that did
\* not hold it returns from acquire only when no task holds it.
C10_MutualExclusion ==
    /\ [](\A t \in Tasks :
            holds[t] > 0 =>
                /\ rl_owner = t
                /\ rl_count = holds[t]
                /\ \A u \in Tasks \ {t} : holds[u] = 0)
    /\ [][(last'.op = "RLock.acquire" /\ holds[last'.task] = 0) =>
            \A u \in Tasks : holds[u] = 0]_vars

\* a task has got the lock after waiting for it, while another still waits
C10_Witness ==
    /\ last.op = "RLock.acquire"
    /\ last.via = "resume"
    /\ \E u \in Tasks \ {last.task} : pc[u] = "RLock.acquire"

\* the tasks of a ready queue, in its order
TasksOf(queue) == [i \in 1 .. Len(queue) |-> queue[i].task]

\* the tasks blocked in RLock.acquire whose _Wakeup has not fired
LockWaiters == {t \in Tasks : pc[t] = "RLock.acquire" /\ Armed(t)}

\* the tasks blocked in RLock.acquire that a release has woken
LockWoken ==
    {t \in Tasks : pc[t] = "RLock.acquire" /\
        \E i \in 1 .. Len(Entries) :
            Entries[i].task = t /\ Entries[i].reason = WAKEUP_NORMAL}

\* C11 as stated: the pending acquirer that the final release has woken is the
\* new owner, so no task takes the lock by a call of acquire while it waits to
\* be resumed.
C11_ReleaseAdmitsPendingAsOwner ==
    [][(rl_owner = NoTask /\ rl_owner' # NoTask /\ LockWoken # {})
            => last'.via = "resume"]_vars

\* C11: the owner is never suspended in acquire, and its acquire adds one to
\* the depth; the owner changes only by the release that brings the depth to
\* zero, which leaves the lock free and its event set and makes exactly one of
\* the pending acquirers ready; a task becomes the owner only of a free lock
\* whose event is set, which it clears.
C11_OwnerReentersReleaseWakesOne ==
    /\ [](/\ \A t \in Tasks : pc[t] = "RLock.acquire" => rl_owner # t
          /\ rl_owner # NoTask => (rl_count >= 1 /\ ev_value["lk"] = <<>>))
    /\ [][/\ (last'.op = "RLock.acquire" /\ rl_owner = last'.task) =>
                /\ last'.via = "call"
                /\ rl_owner' = rl_owner
                /\ rl_count' = rl_count + 1
                /\ TasksOf(ready_queue') = TasksOf(ready_queue)
                /\ ev_value' = ev_value
          /\ (rl_owner # NoTask /\ rl_owner' # rl_owner) =>
                /\ last'.op = "RLock.release"
                /\ last'.task = rl_owner
                /\ rl_count = 1
                /\ rl_count' = 0
                /\ rl_owner' = NoTask
          /\ (last'.op = "RLock.release" /\ rl_count > 1) =>
                /\ rl_owner' = rl_owner
                /\ rl_count' = rl_count - 1
                /\ TasksOf(ready_queue') = TasksOf(ready_queue)
                /\ ev_value' = ev_value
          /\ (last'.op = "RLock.release" /\ rl_owner' = NoTask) =>
                /\ ev_value'["lk"] # <<>>
                /\ LockWaiters = {} => TasksOf(ready_queue') = TasksOf(ready_queue)
                /\ LockWaiters # {} =>
                      \E t \in LockWaiters :
                          /\ TasksOf(ready_queue') = Append(TasksOf(ready_queue), t)
                          /\ ready_queue'[Len(ready_queue')].reason = WAKEUP_NORMAL
          /\ (rl_owner = NoTask /\ rl_owner' # NoTask) =>
                /\ last'.op = "RLock.acquire"
                /\ last'.task = rl_owner'
                /\ rl_count' = 1
                /\ ev_value["lk"] # <<>>
                /\ ev_value'["lk"] = <<>>]_vars

\* the owner has released the lock from depth one with two acquirers pending:
\* one is ready, the other still blocked
C11_Witness ==
    /\ last.op = "RLock.release"
    /\ rl_owner = NoTask
    /\ LockWoken # {}
    /\ LockWaiters # {}

\* C12: Spawn.Wait returns the value the task's function returned; when the
\* function raised, Wait raises that exception if the task has raise_on_wait
\* and returns None if not; the end of a task, however its function ended,
\* hands control to the scheduler where it was, takes no task off the ready
\* queue, changes no other task, and makes at most one joiner ready.
C12_SpawnWaitResult ==
    /\ [](/\ last.op = "Spawn.Wait" =>
                /\ pc[last.aux] = "done"
                /\ \/ /\ sp_returned[last.aux].is = "ok"
                      /\ last.val = sp_returned[last.aux].value
                   \/ /\ sp_returned[last.aux].is = "exc"
                      /\ ~sp_raise_on_wait[last.aux]
                      /\ last.val = 0
          /\ last.op = "Spawn.Wait raise" =>
                /\ pc[last.aux] = "done"
                /\ sp_returned[last.aux].is = "exc"
                /\ sp_raise_on_wait[last.aux]
                /\ last.val = sp_returned[last.aux].value)
    /\ [][\A t \in Tasks :
            (pc[t] = "run" /\ pc'[t] = "done") =>
                /\ current' = Scheduler
                /\ sched_pc' = sched_pc
                /\ TasksOf(tick_queue') = TasksOf(tick_queue)
                /\ \A u \in Tasks \ {t} : pc'[u] = pc[u]
                /\ \/ TasksOf(ready_queue') = TasksOf(ready_queue)
                   \/ \E u \in Tasks :
                        /\ pc[u] = "Spawn.Wait"
                        /\ locals[u].obj = SpawnEvent(t)
                        /\ TasksOf(ready_queue') = Append(TasksOf(ready_queue), u)]_vars

\* a joiner that was blocked in Wait has been resumed with the exception of
\* its task, and another task's exception has been reported instead
C12_Witness ==
    /\ last.op = "Spawn.Wait raise"
    /\ last.via = "resume"
    /\ \E v \in Tasks \ {Main, last.aux} :
            sp_returned[v].is = "exc" /\ ~sp_raise_on_wait[v]

\* C13: once Timer.cancel has returned, no step invokes the callback, whatever
\* the kind of the timer and wherever its task stands; the cancelled timer is
\* not kept alive.
C13_NoCallbackAfterCancel ==
    /\ [](tm_seen.cancelled => (~timer.reuse /\ tm_seen.calls <= MaxCalls))
    /\ [][tm_seen.cancelled =>
            /\ last'.calls = 0
            /\ tm_seen'.calls = tm_seen.calls
            /\ tm_seen'.cancelled]_vars

\* the task of a retriggering timer that has fired was on the ready queue for
\* its next expiry when cancel was called, and has run without invoking the
\* callback
C13_Witness ==
    /\ tm_seen.cancelled
    /\ timer.retrigger
    /\ tm_seen.calls >= 1
    /\ tm_seen.suppressed
    /\ pc[timer.task] = "done"
    /\ last.calls = 0

\* the timer has been created with reuse and without retrigger
ReusableOneShot == timer.task # NoTask /\ timer.reuse /\ ~timer.retrigger

\* C14: a timer with reuse and without retrigger invokes its callback only for
\* a timeout set at creation or by reset that no invocation has answered yet,
\* not before that timeout has passed, and at most once in a step; a timeout
\* that is set and not answered is not lost: the timer task has yet to start,
\* is running, is ready, or waits with a deadline.
C14_OncePerArming ==
    /\ []((ReusableOneShot /\ tm_seen.armed /\ ~tm_seen.cancelled) =>
            /\ pc[timer.task] \in {"new", "run", "Timer.Wait"}
            /\ \/ pc[timer.task] = "new"
               \/ Running(timer.task)
               \/ OnReady(timer.task)
               \/ locals[timer.task].until # NoDeadline)
    /\ [][(ReusableOneShot /\ last'.calls > 0) =>
            /\ last'.calls = 1
            /\ tm_seen.armed
            /\ ~tm_seen'.armed
            /\ tm_seen.due <= now
            /\ timer'.timeout = NoDeadline]_vars

\* the callback is invoked for a timeout set by a reset that arrived while an
\* expiry was pending, which was taken without an invocation
C14_Witness ==
    /\ ReusableOneShot
    /\ last.calls = 1
    /\ tm_seen.rearmed
    /\ tm_seen.suppressed
    /\ tm_seen.calls = 1

\* the task of callback_events is suspended in its poll and nothing has woken it
DispatcherBlocked ==
    /\ callback.task # NoTask
    /\ pc[callback.task] = "poll_list"
    /\ Armed(callback.task)

\* thread th is in a call of Callback that will write a byte to the pipe
WillWrite(th) ==
    \/ threads[th] \in {"clear", "write"}
    \/ threads[th] = "test" /\ callback.waiting

\* C15: whenever the task of callback_events is blocked in its poll with
\* actions in the FIFO and no byte in the pipe, a thread is in the middle of a
\* call of Callback that goes on to write the byte; the actions are run in the
\* order in which they were posted, each once, by the task of callback_events;
\* and every action posted is run in the end.
C15_CallbackNeverStranded ==
    /\ []((DispatcherBlocked /\ callback.values # <<>> /\ callback.pipe = 0)
            => \E th \in Threads : WillWrite(th))
    /\ [](/\ Len(cb_seen.ran) <= Len(cb_seen.posted)
          /\ cb_seen.ran = SubSeq(cb_seen.posted, 1, Len(cb_seen.ran))
          /\ cb_seen.posted = cb_seen.ran \o callback.values)
    /\ [][cb_seen'.ran # cb_seen.ran =>
            (current = callback.task /\ pc[callback.task] = "run")]_vars
    /\ \A i \in 1 .. MaxPosts :
            (Len(cb_seen.posted) >= i) ~> (Len(cb_seen.ran) >= i)

\* the task of callback_events is blocked with two actions in the FIFO and no
\* byte in the pipe; one thread has finished its call without writing (it
\* found self.waiting cleared), the other is about to write
C15_Witness ==
    /\ DispatcherBlocked
    /\ Len(callback.values) = 2
    /\ callback.pipe = 0
    /\ \E th \in Threads :
        /\ threads[th] = "write"
        /\ \A o \in Threads \ {th} : threads[o] = "idle"

\* C16: a call of CallbackResult from an OS thread that returns a value or
\* raises an exception other than Timedout does so only when the action has
\* finished, in a coroutine of the scheduler thread, and returns the value
\* the action returned or raises the exception it raised; a call without
\* callback_timeout never raises Timedout, so it blocks until then.  The
\* action runs in a step of that coroutine.  A call from a coroutine of the
\* scheduler thread ends in the same step, with the action's outcome, and
\* posts nothing.
C16_CallbackResult ==
    /\ [](\A th \in Threads :
            /\ cbr[th].f # "none" => cbr[th].task \in Tasks
            /\ cbr[th].pc = "done" =>
                  /\ cbr[th].timeout = NoDeadline => cbr[th].out # TimedOut
                  /\ cbr[th].out # TimedOut =>
                        /\ cbr[th].f = "finished"
                        /\ cbr[th].out = cbr[th].f_outcome)
    /\ [][/\ \A th \in Threads :
                cbr'[th].f # cbr[th].f => current = cbr'[th].task
          /\ last'.op \in {"CallbackResult", "CallbackResult raise"} =>
                /\ last'.via = "call"
                /\ callback' = callback
                /\ cbr' = cbr
                /\ current' = current]_vars

\* two calls are over: one returned the action's value, the other raised the
\* action's exception, one of them through Spawn
C16_Witness ==
    \E th, x \in Threads :
        /\ cbr[th].pc = "done" /\ cbr[th].out.is = "ok"
        /\ cbr[x].pc = "done" /\ cbr[x].out.is = "exc"
        /\ cbr[th].spawn \/ cbr[x].spawn
        /\ cbr[th].timeout = NoDeadline
\* the consumers that have read their byte and have yet to pop
Popping ==
    Cardinality({th \in Threads : threads[th] = "Wait popleft"})
    + Cardinality({t \in Tasks : teq.co[t] = "Wait popleft"})

\* C17: the values of a ThreadedEventQueue that have been returned by Wait,
\* followed by those still queued, are the values passed to Signal in the
\* order of their append, so each is returned at most once and in FIFO
\* order, to a coroutine or to an OS thread; the unread bytes of the pipe,
\* with the consumers that have read a byte and not yet popped, never exceed
\* the queued values, and no popleft finds the deque empty.
C17_ThreadedQueueFifo ==
    /\ teq.appended = teq.got \o teq.values
    /\ teq.pipe + Popping <= Len(teq.values)
    /\ ~teq.error

\* three values signalled have all been returned, to a coroutine and to an
\* OS thread, and another consumer that found the descriptor readable waits
\* in os.read for a byte that was taken before it
C17_Witness ==
    /\ teq.got = <<1, 2, 3>>
    /\ "thread" \in Range(teq.by)
    /\ "cothread" \in Range(teq.by)
    /\ teq.pipe = 0
    /\ \/ \E th \in Threads : threads[th] = "Wait read"
       \/ \E t \in Tasks : teq.co[t] = "Wait read"

\* ------------------------------------------------------------------------
\* C18: a call of Spawn, Sleep, Yield, poll, or of Wait or Signal of an Event,
\* a Pulse or an EventQueue made in an OS thread other than the scheduler's
\* is rejected by _validate_thread, and the rejected call leaves the event's
\* value, the queued values, the wait queues and the ready queue as they were.
C18_ThreadCallRejectedUnchanged ==
    [][last'.via \in {"rejected", "thread"}
        => /\ last'.via = "rejected"
           /\ UNCHANGED <<ev_value, eq_queue, wait_queues, ready_queue>>]_vars

\* ------------------------------------------------------------------------
\* C19: when the poll reports events of a descriptor with several pollers,
\* every event outside POLLEXTRA goes to exactly one poller, the first in order
\* of registration whose mask includes it, and the events of POLLEXTRA go to
\* every poller; a poller that is given an event is woken once, with the
\* normal reason, and a poller that is given nothing stays unwoken on the
\* descriptor's poll queue, where it is until it is woken.
Offered(pollers, i, events) ==
    {b \in events :
        \/ b \in POLLEXTRA
        \/ /\ b \in wk[pollers[i]].poller.events["fd"]
           /\ \A j \in 1 .. (i - 1) : b \notin wk[pollers[j]].poller.events["fd"]}

C19_PollEventsToFirstPoller ==
    /\ [][last'.events # {}
            => LET pollers == poll_queue["fd"]
               IN  \A i \in 1 .. Len(pollers) :
                     LET w == pollers[i]
                         given == wk'[w].poller.ready_list["fd"]
                     IN  /\ given = Offered(pollers, i, last'.events)
                         /\ poll_queue'["fd"] = pollers
                         /\ IF given = {}
                            THEN wk'[w].task = wk[w].task /\ wk[w].task # NoTask
                            ELSE /\ wk'[w].task = NoTask
                                 /\ Cardinality({k \in 1 .. Len(ready_queue') :
                                        ready_queue'[k].w = w}) = 1
                                 /\ \A k \in 1 .. Len(ready_queue') :
                                        ready_queue'[k].w = w
                                          => /\ ready_queue'[k].task = wk[w].task
                                             /\ ready_queue'[k].reason = WAKEUP_NORMAL]_vars
    /\ [](\A t \in Tasks :
            pc[t] = "poll_list" /\ wk[locals[t].w].task # NoTask
                => Cardinality({i \in 1 .. Len(poll_queue["fd"]) :
                        poll_queue["fd"][i] = locals[t].w}) = 1)

C19_Witness ==
    /\ last.events = {"POLLIN", "POLLOUT"}
    /\ Len(poll_queue["fd"]) = 3
    /\ wk[poll_queue["fd"][1]].poller.ready_list["fd"] = {"POLLIN"}
    /\ wk[poll_queue["fd"][2]].poller.ready_list["fd"] = {"POLLOUT"}
    /\ wk[poll_queue["fd"][3]].poller.events["fd"] = {"POLLIN"}
    /\ wk[poll_queue["fd"][3]].poller.ready_list["fd"] = {}
    /\ wk[poll_queue["fd"][3]].task # NoTask

\* ------------------------------------------------------------------------
\* C20: when the schedule loop raises, the exception is raised in the main
\* task at the call it is suspended in; the main task is then on no ready
\* queue and its _Wakeup is spent, so that every entry waiting to be
\* dispatched belongs to the suspension its task is in (none resumes a task a
\* second time); and the scheduler goes on dispatching the others: every task
\* that was spawned or woken and has not run since is waiting to be dispatched.
Woken(t) ==
    \/ pc[t] = "new"
    \/ pc[t] \in Blocked /\ wk[locals[t].w].task = NoTask

C20_SchedulerRaiseResumesMainOnce ==
    /\ [][last'.op = "exception"
            => /\ pc[Main] \in Blocked
               /\ current' = Main /\ pc'[Main] = "run"
               /\ last'.task = Main /\ last'.via = "raise"
               /\ \A i \in 1 .. Len(tick_queue' \o ready_queue') :
                     (tick_queue' \o ready_queue')[i].task # Main
               /\ \A w \in 1 .. MaxWakeups :
                     wk'[w].owner = Main => wk'[w].task = NoTask]_vars
    /\ [](\A i \in 1 .. Len(Entries) :
            \/ pc[Entries[i].task] = "new" /\ Entries[i].w = NoTask
            \/ /\ pc[Entries[i].task] \in Blocked
               /\ Entries[i].w = locals[Entries[i].task].w)
    /\ [](\A t \in Tasks : Woken(t) => OnReady(t))

\* ------------------------------------------------------------------------
\* C21: a callback of a subscription that merges updates (all_updates false)
\* is given the update handed to __maybe_signal last, and its update_count is
\* the number of updates handed to __maybe_signal since the callback before
\* it; while the subscription is not closed the updates merged and not yet
\* delivered are counted in __update_count and exactly one call of __signal
\* is queued for them, so none is lost or told twice; with all_updates every
\* callback has update_count 1.
Tokens(s) ==
    Cardinality({i \in 1 .. Len(ca.values) :
                    ca.values[i].sub = s /\ ca.values[i].value = NoValue})

C22_DeliveriesInOrderReceived ==
    [][last'.op \in {"callback", "report"}
        => last'.val > ca.subs[last'.aux].delivered]_vars

\* ------------------------------------------------------------------------
\* C23: the user callback of a subscription is never invoked once close() has
\* been called on it, whatever was queued for dispatch before; a closed
\* subscription stays closed; and ca_clear_subscription is called at most
\* once for a subscription, however often close() is called.
C23_NoCallbackAfterClose ==
    /\ [][last'.op = "callback" => ca.subs[last'.aux].state # "CLOSED"]_vars
    /\ [][\A s \in Subs : ca.subs[s].state = "CLOSED"
                            => ca'.subs[s].state = "CLOSED"]_vars
    /\ [](\A s \in Subs : ca.subs[s].clears <= 1)

\* close() is called a second time on a subscription that was open, while
\* an update queued before the first close waits for dispatch
C23_Witness ==
    /\ last.op = "close"
    /\ last.calls = 1
    /\ ca.subs[last.aux].clears = 1
    /\ \E i \in 1 .. Len(ca.values) : ca.values[i].sub = last.aux

\* ------------------------------------------------------------------------
\* C24: when the user callback raises, the traceback is printed and the
\* subscription is closed in the same step, its callback is not invoked
\* again, and the dispatcher goes on: the actions queued behind stay queued,
\* the other subscriptions are left as they are and their callbacks are
\* still invoked.
C24_RaisingCallbackClosed ==
    /\ [][last'.op = "callback" /\ last'.via = "raise"
            => /\ ca'.logged
               /\ ca'.subs[last'.aux].state = "CLOSED"
               /\ ca'.values = Tail(ca.values)
               /\ \A r \in Subs \ {last'.aux} : ca'.subs[r] = ca.subs[r]]_vars
    /\ [][last'.op = "callback" => ~ca.subs[last'.aux].failed]_vars
    /\ [](\A s \in Subs : ca.subs[s].failed => ca.subs[s].state = "CLOSED")

\* the callback of one subscription returns after the callback of the other
\* one has raised
C24_Witness ==
    /\ last.op = "callback"
    /\ last.via = "call"
    /\ \E r \in Subs \ {last.aux} : ca.subs[r].failed

\* ------------------------------------------------------------------------
\* C27: once the channel is purged every subscription that refers to it is
\* closed, those still opening included, and no native subscription is left:
\* ca_clear_subscription has been called for each before ca_clear_channel.
C27_PurgeClosesSubscriptions ==
    [](ca.channel = "cleared"
        => \A s \in Subs : /\ ca.subs[s].state \in {"none", "CLOSED"}
                           /\ ca.subs[s].handle # "created")

\* ------------------------------------------------------------------------
\* C25: a subscription leaves the state opening only by close() or, once the
\* channel has connected, by its helper; close() on an opening subscription
\* closes it and leaves its helper woken and waiting to be dispatched (or
\* not started, or ended), and the helper ends when it runs next, so that
\* the subscription is never added to the channel and no native subscription
\* is created for it, even if the channel connects before the helper runs.
ClosedOpening(s) == ca.subs[s].state = "CLOSED" /\ ca.subs[s].handle = "none"

C25_CloseWhileOpening ==
    /\ [][\A s \in Subs :
            ca.subs[s].state = "OPENING" /\ ca'.subs[s].state # "OPENING"
                => \/ last'.op = "close" /\ ca'.subs[s].state = "CLOSED"
                   \/ ca.connected /\ ca'.subs[s].state = "OPEN"]_vars
    /\ [][\A s \in Subs : ClosedOpening(s) => ClosedOpening(s)']_vars
    /\ [](\A s \in Subs :
            ClosedOpening(s)
                => /\ s \notin ca.subscriptions
                   /\ \/ pc[ca.subs[s].helper] = "done"
                      \/ /\ Woken(ca.subs[s].helper)
                         /\ OnReady(ca.subs[s].helper))
    /\ [][\A s \in Subs :
            ClosedOpening(s) /\ last'.via = "resume"
                             /\ last'.task = ca.subs[s].helper
                => pc'[ca.subs[s].helper] = "done"]_vars

\* the subscription was closed while its helper waited, the channel has
\* connected since, and the helper has not run yet
C25_Witness ==
    \E s \in Subs :
        /\ ClosedOpening(s)
        /\ ca.connected
        /\ pc[ca.subs[s].helper] = "Pulse.Wait"
        /\ OnReady(ca.subs[s].helper)

\* ------------------------------------------------------------------------
\* C26 as claimed: when the connect_timeout of a subscription has expired
\* before the channel connected, its callback is told of exactly one
\* disconnection, whatever notify_disconnect is: never of more than one, and
\* of one as soon as nothing waits to be dispatched for the subscription.
Dispatched(s) ==
    /\ ca.subs[s].update_count = 0
    /\ \A i \in 1 .. Len(ca.values) : ca.values[i].sub # s

C28_NoTaskScheduled ==
    [][last'.op = "ECA_TIMEOUT" => last'.aux = last'.val]_vars

\* C28 (amended): a caget with timeout 0 on a channel that is not connected
\* suspends the caller; if the channel is still not connected when the caller
\* is resumed, it raises ca_nothing with ECA_TIMEOUT, and every task that was
\* ready at the call has been scheduled between the call and that return.
C28_TimeoutAfterReadyTasks ==
    [][/\ \A t \in Tasks :
            pc[t] = "Channel.Wait" /\ pc'[t] # "Channel.Wait" /\ ~ca'.connected
                => /\ last'.op = "ECA_TIMEOUT"
                   /\ last'.task = t
                   /\ last'.via = "raise"
       /\ last'.op = "ECA_TIMEOUT"
            => /\ pc[last'.task] = "Channel.Wait"
               /\ current = Scheduler
               /\ last'.aux = 0]_vars

C28_Witness ==
    /\ last.op = "ECA_TIMEOUT"
    /\ last.via = "raise"
    /\ last.val > 0
    /\ last.aux = 0
    /\ ~ca.connected

\* the flusher will run: it is on a ready queue
FlusherReady ==
    \E e \in Range(ready_queue) \cup Range(tick_queue) : e.task = ca.flusher

\* C29: after a request that needs a flush the event of the flusher is set
\* and the flusher is ready to run; when the flusher next runs it calls
\* ca_flush_io exactly once, whatever the number of requests since its last
\* run, and none is left unserved; each time the flusher is woken from its
\* wait it calls ca_flush_io exactly once.
C29_OneFlushPerWakeup ==
    /\ [](ca.flusher # NoTask /\ ca.requests > 0
            => ev_value["fl"] # <<>> /\ FlusherReady)
    /\ [][last'.via = "resume" /\ last'.task = ca.flusher /\ ca.flusher # NoTask
            => /\ ca'.requests = 0
               /\ pc'[ca.flusher] = "FlushIo.Wait"
               /\ ev_value'["fl"] = <<>>
               /\ ca.requests > 0 \/ pc[ca.flusher] = "FlushIo.Wait"
                    => /\ last'.op = "ca_flush_io"
                       /\ last'.calls = 1
                       /\ last'.aux = ca.requests
                       /\ ca.requests > 0]_vars

C29_Witness ==
    /\ last.op = "ca_flush_io"
    /\ last.task = ca.flusher
    /\ last.aux = 2
    /\ last.calls = 1
    /\ ca.requests = 0

\* the exceptions throw=False is to catch: a timeout or a CA error status
\* (ca_nothing raised, CAException) and a disconnect
Expected == {"ca_nothing", "CAException", "Disconnected"}

\* result is what a call for PV pv that ended as raw gives with throw=False:
\* the value as it was returned, or for an expected exception the sentinel
\* with the name of the PV, ok False and the error code
Sentinel(result, pv, raw) ==
    /\ result.name = pv
    /\ raw.is = "ok" => result = raw.value
    /\ raw.is = "exc" => /\ raw.value.kind \in Expected
                         /\ result.kind = "ca_nothing"
                         /\ ~result.ok
                         /\ result.errorcode = raw.value.errorcode

\* C30: with throw=False a call for one PV raises only exceptions that are
\* none of ca_nothing, CAException and Disconnected, and otherwise returns the
\* value or the sentinel of the failure; a call for a list of PVs raises only
\* such an exception too, and otherwise returns a list as long as the list of
\* PVs whose i-th entry is the value or the sentinel of the i-th PV.
C30_NoThrowGivesSentinels ==
    [][/\ last'.op = "caget raise" /\ last'.via = "no throw"
            => last'.val.kind \notin Expected
       /\ last'.op = "caget" /\ last'.via = "no throw"
            => \A raw \in last'.events : Sentinel(last'.val, last'.aux, raw)
       /\ last'.op = "WaitForAll raise" /\ ~ca'.array.throw
            => last'.val.kind \notin Expected
       /\ last'.op = "WaitForAll" /\ ~ca'.array.throw
            => /\ Len(ca'.array.result) = Len(ca'.array.pvs)
               /\ \A i \in 1 .. Len(ca'.array.pvs) :
                    Sentinel(ca'.array.result[i], ca'.array.pvs[i],
                             ca'.array.raw[i])]_vars

C30_Witness ==
    /\ last.op = "WaitForAll"
    /\ ~ca.array.throw
    /\ ca.array.pvs = <<2, 1>>
    /\ ca.array.raw[1] = Raised(Disconnected)
    /\ ca.array.result[1] = ca_nothing(2, "ECA_DISCONN")
    /\ ca.array.result[2] = ca_value(1)

\* C31 (as stated): while the task of callback_events drains the FIFO the
\* waiting flag is clear, the task having cleared it before; and a step of a
\* posting thread leaves the flag as it is.
C31_ClearedByDispatcher ==
    /\ [](callback.task # NoTask /\ cb_pc = "drain" => ~callback.waiting)
    /\ [][threads' # threads => callback'.waiting = callback.waiting]_vars

\* C31 (amended): the waiting flag is set inside the dispatcher, at the top
\* of its loop before it tests and drains the FIFO, and the dispatcher never
\* clears it; a posting thread reads the flag and, only when it reads true,
\* clears it and writes one byte to the pipe.
C31_SetByDispatcherClearedByPoster ==
    [][/\ ~callback.waiting /\ callback'.waiting
            => cb_pc = "waiting" /\ cb_pc' = "values" /\ threads' = threads
       /\ callback.waiting /\ ~callback'.waiting
            => \E th \in Threads : threads[th] = "clear" /\ threads'[th] = "write"
       /\ \A th \in Threads :
            /\ threads[th] = "test" /\ threads'[th] = "clear" => callback.waiting
            /\ threads[th] = "test" /\ threads'[th] = "idle"
                    => ~callback.waiting /\ callback'.pipe = callback.pipe
            /\ threads[th] = "clear" /\ threads'[th] # "clear"
                    => threads'[th] = "write" /\ ~callback'.waiting
            /\ threads[th] = "write" /\ threads'[th] # "write"
                    => callback'.pipe = callback.pipe + 1
       /\ callback'.pipe > callback.pipe
            => \E th \in Threads : threads[th] = "write" /\ threads'[th] = "idle"
       /\ cb_pc = "values" /\ cb_pc' = "drain" /\ threads' = threads
            => callback'.waiting = callback.waiting]_vars

\* the dispatcher drains the FIFO with the flag still set, and a thread that
\* has read it true is about to clear it
C31_Witness ==
    /\ callback.task # NoTask
    /\ cb_pc = "drain"
    /\ callback.waiting
    /\ callback.values # <<>>
    /\ \E th \in Threads : threads[th] = "clear"

\* the wakeups on the timer queue, in its order
TimerWakeups == [i \in 1 .. Len(timer_queue.entries) |-> timer_queue.entries[i].wakeup]

\* C32: after every operation the garbage count of the timer queue and of
\* every wait queue is the number of spent wakeups on the queue, and lies
\* between 0 and the length of the queue; no assertion of wake_expired or wake
\* has failed, and no cancel has left more garbage than live entries.
C32_GarbageCountsSpent ==
    /\ ~garbage_wrong
    /\ timer_queue.garbage = Spent(Cur, TimerWakeups)
    /\ GarbageInRange(timer_queue.garbage, timer_queue.entries)
    /\ \A q \in DOMAIN wait_queues :
        /\ wait_queues[q].garbage = Spent(Cur, wait_queues[q].waiters)
        /\ GarbageInRange(wait_queues[q].garbage, wait_queues[q].waiters)

\* spent wakeups lie on the timer queue and on a wait queue, counted
C32_Witness ==
    /\ timer_queue.garbage > 0
    /\ Len(timer_queue.entries) > timer_queue.garbage
    /\ \E q \in DOMAIN wait_queues :
        /\ wait_queues[q].garbage > 0
        /\ Len(wait_queues[q].waiters) > wait_queues[q].garbage

\* the scheduler is leaving its tick for the poll
EntersPoll == sched_pc = "dispatch" /\ sched_pc' = "poll"

\* the ready queue, the yield queue and the timer queue hold nothing
AllQueuesEmpty ==
    /\ ready_queue = <<>>
    /\ wait_queues[YieldQueue].waiters = <<>>
    /\ timer_queue.entries = <<>>

\* C33: the scheduler enters a poll without a time limit only when the ready
\* queue, the yield queue and the timer queue are all empty; with a task ready
\* or yielded the poll has delay 0, and otherwise it lasts until the earliest
\* deadline of the timer queue, but never less than MinDelay.
C33_PollDelay ==
    [][EntersPoll =>
        /\ (poll_until' = NoDeadline) <=> AllQueuesEmpty
        /\ (ready_queue # <<>> \/ wait_queues[YieldQueue].waiters # <<>>)
              => poll_until' = now
        /\ (/\ ready_queue = <<>>
            /\ wait_queues[YieldQueue].waiters = <<>>
            /\ timer_queue.entries # <<>>)
              => /\ poll_until' >= now + MinDelay
                 /\ poll_until' >= timer_queue.entries[1].timeout
                 /\ \/ poll_until' = now + MinDelay
                    \/ poll_until' = timer_queue.entries[1].timeout]_vars

\* a poll entered with only a timer pending whose deadline has been reached:
\* it lasts MinDelay
C33_Witness ==
    /\ sched_pc = "poll"
    /\ ready_queue = <<>>
    /\ wait_queues[YieldQueue].waiters = <<>>
    /\ timer_queue.entries # <<>>
    /\ timer_queue.entries[1].timeout <= now
    /\ poll_until = now + MinDelay

\* the helper of subscription s is resumed from the Wait of the Pulse inside
\* WakeableWait by this step, for the given reason
WakeableWaitEnds(s, reason) ==
    /\ current = Scheduler
    /\ sched_pc = "dispatch"
    /\ tick_queue # <<>>
    /\ tick_queue[TickNext(tick_queue)].task = ca.subs[s].helper
    /\ tick_queue[TickNext(tick_queue)].reason = reason
    /\ pc[ca.subs[s].helper] = "Pulse.Wait"
    /\ tick_queue' # tick_queue

\* C34 as claimed: WakeableWait returns False when its deadline passes before
\* the channel connects and True when the channel is connected; it never
\* raises.
C34_FalseOnTimeout ==
    [][\A s \in Subs :
        /\ WakeableWaitEnds(s, WAKEUP_TIMEOUT) => ca'.subs[s].woke = "False"
        /\ WakeableWaitEnds(s, WAKEUP_NORMAL) /\ ca.connected
              => ca'.subs[s].woke = "True"
        /\ ca'.subs[s].woke # "Timedout"]_vars

\* C34, amended: WakeableWait returns True when the channel is connected and
\* raises Timedout when its deadline passes before the channel connects; it
\* returns False only when it was woken with the channel not connected.  The
\* Timedout is caught by __wait_for_channel, which tells the subscription of
\* the disconnection.
C34_TimedoutOnTimeout ==
    [][\A s \in Subs :
        /\ WakeableWaitEnds(s, WAKEUP_TIMEOUT)
              => /\ ca'.subs[s].woke = "Timedout"
                 /\ ca'.subs[s].timedout
        /\ WakeableWaitEnds(s, WAKEUP_NORMAL)
              => ca'.subs[s].woke = IF ca.connected THEN "True" ELSE "False"
        /\ ca'.subs[s].woke # ca.subs[s].woke /\ ca'.subs[s].woke = "True"
              => ca.connected
        /\ ca'.subs[s].woke # ca.subs[s].woke /\ ca'.subs[s].woke = "Timedout"
              => WakeableWaitEnds(s, WAKEUP_TIMEOUT)]_vars

\* the deadline of a WakeableWait has passed with the channel not connected,
\* and the helper waits again, now without a deadline
C34_Witness ==
    \E s \in Subs :
        /\ ca.subs[s].woke = "Timedout"
        /\ ~ca.connected
        /\ pc[ca.subs[s].helper] = "Pulse.Wait"
        /\ locals[ca.subs[s].helper].until = NoDeadline

\* C35: the extra reference on the context of a caget or of a callback caput
\* is taken once, before the pointer is handed to the library, and is dropped
\* exactly once, when the completion callback fires or when the request times
\* out: it is never dropped twice, and is not held once the request has
\* ended.
C35_ReferenceDroppedOnce ==
    \A t \in Tasks :
        /\ ca.context[t].incs <= 1
        /\ ca.context[t].decs <= ca.context[t].incs
        /\ ca.context[t].handed => ca.context[t].incs = 1
        /\ ca.context[t].ended # "no" => ca.context[t].decs = ca.context[t].incs

\* the tasks on the ready queue and the number of waiters of an event, which
\* do not depend on how the wakeups are numbered
ReadyTasks == [i \in 1 .. Len(ready_queue) |-> ready_queue[i].task]
Waiting(e) == Len(wait_queues[e].waiters)

\* task u ends in this step
Completes(u) == pc[u] # "done" /\ pc'[u] = "done"

\* C36: AbortWait on the Spawn of a task that has finished discards the
\* stored result; on a task that has not finished it adds an abort credit, and
\* the completion of a task with a credit is absorbed: one credit is used,
\* the result is discarded and no waiter is woken.
C36_AbortWaitAbsorbsCompletion ==
    [][\A u \in Tasks \ {Main} :
        /\ (last'.op = "Spawn.AbortWait" /\ last'.aux = u /\ current # Scheduler)
              => IF sp_result[u].is = "empty"
                 THEN /\ wait_abort'[SpawnEvent(u)] = wait_abort[SpawnEvent(u)] + 1
                      /\ sp_result'[u] = sp_result[u]
                 ELSE /\ sp_result'[u] = Deleted
                      /\ wait_abort' = wait_abort
        /\ (Completes(u) /\ wait_abort[SpawnEvent(u)] > 0)
              => /\ sp_result'[u] = Deleted
                 /\ wait_abort'[SpawnEvent(u)] = wait_abort[SpawnEvent(u)] - 1
                 /\ ReadyTasks' = ReadyTasks
                 /\ Waiting(SpawnEvent(u))' = Waiting(SpawnEvent(u))
        /\ (Completes(u) /\ wait_abort[SpawnEvent(u)] = 0)
              => sp_result'[u] # Deleted]_vars

\* a task has ended with its completion absorbed: its result is gone, and a
\* task that waits for it was not woken
C36_Witness ==
    \E u \in Tasks \ {Main}, t \in Tasks :
        /\ pc[u] = "done"
        /\ sp_result[u] = Deleted
        /\ pc[t] = "Spawn.Wait"
        /\ locals[t].obj = SpawnEvent(u)
        /\ \A i \in 1 .. Len(ready_queue) : ready_queue[i].task # t

\* the Spawn objects WaitForAll was called with, in the order of the list
Listed(i) == ca.array.tasks[i]

\* C37: WaitForAll waits for its events in the order of the list, each until
\* the one deadline computed at entry; the first event of the list whose Wait
\* fails ends it, with the exception of the child or with Timedout, and
\* AbortWait is then applied to every event after it in the list: none of
\* them retains a result, then or when its task ends later.
C37_WaitForAllInOrder ==
    /\ [](ca.array.caller # NoTask =>
            /\ Len(ca.array.result) <= Len(ca.array.tasks)
            /\ \A i \in 1 .. Len(ca.array.result) :
                    sp_returned[Listed(i)] = Returned(ca.array.result[i])
            /\ pc[ca.array.caller] = "WaitForAll" =>
                    /\ locals[ca.array.caller].until = ca.array.deadline
                    /\ locals[ca.array.caller].obj
                            = SpawnEvent(Listed(Len(ca.array.result) + 1))
            /\ ca.array.failed > 0 =>
                    /\ ca.array.failed = Len(ca.array.result) + 1
                    /\ \A j \in (ca.array.failed + 1) .. Len(ca.array.tasks) :
                            /\ sp_result[Listed(j)].is \in {"empty", "deleted"}
                            /\ sp_result[Listed(j)].is = "empty"
                                    => wait_abort[SpawnEvent(Listed(j))] > 0)
    /\ [][ca.array.caller # NoTask =>
            /\ ca.array'.deadline = ca.array.deadline
            /\ (ca.array.failed = 0 /\ ca.array'.failed > 0) =>
                    \/ /\ last'.op = "WaitForAll raise"
                       /\ sp_returned[Listed(ca.array'.failed)].is = "exc"
                       /\ last'.val = sp_returned[Listed(ca.array'.failed)].value
                    \/ /\ last'.op = "WaitForAll Timedout"
                       /\ pc[ca.array.caller] = "WaitForAll"
                       /\ ca.array.deadline # NoDeadline
                       /\ now >= ca.array.deadline]_vars

\* WaitForAll has timed out on the first of two events; the second one had
\* finished, and its result was discarded
C37_Witness ==
    /\ last.op = "WaitForAll Timedout"
    /\ ca.array.failed = 1
    /\ Len(ca.array.tasks) = 2
    /\ sp_returned[Listed(2)].is # "empty"
    /\ sp_result[Listed(2)] = Deleted

\* C38: an EventQueue has abort credits only while its queue of values is
\* empty, whatever Signal, Wait, AbortWait, Reset and close were called; so a
\* Signal(v) whose wakeup is absorbed by a credit removes the v it has just
\* appended and leaves the values queued before the call, none, as they were.
C38_CreditsOnlyWhileEmpty ==
    /\ [](wait_abort["eq"] > 0 => eq_queue = <<>>)
    /\ [][(eq_signalled' # eq_signalled /\ wait_abort["eq"] > 0 /\ ~eq_closed)
            => /\ wait_abort'["eq"] = wait_abort["eq"] - 1
               /\ eq_queue' = eq_queue
               /\ eq_accepted' = Append(eq_accepted, eq_signalled')
               /\ ReadyTasks' = ReadyTasks
               /\ Waiting("eq")' = Waiting("eq")]_vars

\* a Signal was absorbed: its value is gone and the task that waits on the
\* queue was not woken
C38_Witness ==
    /\ last.op = "EventQueue.Signal True"
    /\ eq_queue = <<>>
    /\ eq_received = <<>>
    /\ ready_queue = <<>>
    /\ wait_queues["eq"].waiters # <<>>
    /\ \A i \in 1 .. Len(wait_queues["eq"].waiters) :
            ~Wakeup_woken(Cur, wait_queues["eq"].waiters[i])

\* C39: a subscription in state open holds a native subscription handle and
\* is attached to its channel, also when computing the decoder or
\* ca_create_subscription has failed, so close never calls
\* ca_clear_subscription without a handle.
C39_OpenHoldsHandle ==
    \A s \in Subs :
        /\ ca.subs[s].state = "OPEN"
                => ca.subs[s].handle = "created" /\ s \in ca.subscriptions
        /\ ca.subs[s].handle # "missing"

\* the tasks blocked in Wait on the Spawn of task u whose wakeup is armed, in
\* the order of its wait queue
Joiners(u) ==
    LET armed == SelectSeq(wait_queues[SpawnEvent(u)].waiters,
                           LAMBDA w : wk[w].task # NoTask)
    IN  [i \in 1 .. Len(armed) |-> wk[armed[i]].task]

\* task t is blocked in Wait on a Spawn whose task has ended, its wakeup armed
LeftBehind(t) ==
    /\ pc[t] = "Spawn.Wait"
    /\ Armed(t)
    /\ pc[SpawnTask(locals[t].obj)] = "done"

\* C40: when a spawned task ends while tasks are blocked in Wait on it (and
\* no abort credit absorbs the completion), exactly one of them is made
\* ready, the earliest whose wakeup is still armed; the others stay blocked
\* on the queue, and each is woken later only by its own timeout.
C40_CompletionWakesOne ==
    /\ [][\A u \in Tasks \ {Main} :
            (Completes(u) /\ wait_abort[SpawnEvent(u)] = 0 /\ Joiners(u) # <<>>)
                => /\ ReadyTasks' = Append(ReadyTasks, Joiners(u)[1])
                   /\ ready_queue'[Len(ready_queue')].reason = WAKEUP_NORMAL
                   /\ Joiners(u)' = Tail(Joiners(u))
                   /\ \A t \in Tasks :
                        (\E i \in 2 .. Len(Joiners(u)) : Joiners(u)[i] = t)
                            => LeftBehind(t)']_vars
    /\ [][\A t \in Tasks :
            (LeftBehind(t) /\ ~LeftBehind(t)')
                => \E e \in Range(ready_queue') \cup Range(tick_queue') :
                        /\ e.task = t
                        /\ e.reason = WAKEUP_TIMEOUT]_vars

\* C40 as stated, for every completion: whenever a task ends with tasks
\* blocked in Wait on it, the earliest armed one is made ready.
C40_CompletionAlwaysWakesOne ==
    [][\A u \in Tasks \ {Main} :
            (Completes(u) /\ Joiners(u) # <<>>)
                => /\ ReadyTasks' = Append(ReadyTasks, Joiners(u)[1])
                   /\ Joiners(u)' = Tail(Joiners(u))]_vars

\* a task has ended with two tasks blocked in Wait on it: one of them is
\* ready, the other is still blocked with its wakeup armed
C40_Witness ==
    \E t, v \in Tasks :
        /\ t # v
        /\ LeftBehind(v)
        /\ pc[t] = "Spawn.Wait"
        /\ locals[t].obj = locals[v].obj
        /\ \E i \in 1 .. Len(ready_queue) :
                /\ ready_queue[i].task = t
                /\ ready_queue[i].reason = WAKEUP_NORMAL

====
